---- MODULE Spec2Model ----
(***************************************************************************)
(* Keysmith: the key-lifecycle engine (Engine), the in-memory store it is  *)
(* tested against (store/memory) and the plug-in hook manager              *)
(* (plugin.Manager), as a state machine.                                   *)
(*                                                                         *)
(* Time is a logical clock `now`; durations are clock ticks.  Raw keys are *)
(* small integers; Hash is an injective map into a disjoint range and Hint *)
(* keeps the low-order part of the raw key (its "last characters").        *)
(***************************************************************************)
EXTENDS Integers, Sequences, FiniteSets, TLC

VARIABLES
    keys,            \* Store.keys: key id -> Key
    hashIndex,       \* Store.hashIndex: key hash -> key id
    policies,        \* Store.policies: policy id -> Policy
    rotations,       \* Store.rotations: rotation id -> Record
    scopes,          \* Store.scopes: set of Scope rows
    keyScopes,       \* Store.keyScopes: key id -> set of scope names
    plugins,         \* Manager.plugins, in registration order
    ratelimiter,     \* Engine.ratelimiter is set
    now,             \* what time.Now() returns
    ids,             \* how many ids of each kind the constructors have handed out
    issued,          \* raw keys the generator has produced so far
    rawOf,           \* key id -> raw key last returned to the caller for it
    pendingLastUsed, \* key id -> background last-used updates not yet run
    last,            \* what the last engine call returned and which hooks it fired
    dispatch,        \* what the last direct Manager.Fire<Kind> call did
    calls            \* caller -> the engine call it has in flight, step by step

vars == <<keys, hashIndex, policies, rotations, scopes, keyScopes, plugins,
          ratelimiter, now, ids, issued, rawOf, pendingLastUsed, last, dispatch, calls>>

storeVars == <<keys, hashIndex, policies, rotations, scopes, keyScopes>>

----------------------------------------------------------------------------
\* Bounds of the model

MaxKeys == 1

MaxPolicies == 1

MaxRaw == 3

MaxTime == 1

MaxPending == 1

MaxRotations == 2

MaxPlugins == 3

MaxCallers == 2
MaxScopes == 2

MaxHashed == 9

\* The length of an id's suffix (26 characters in a TypeID).
SuffixLen == 2

KeyIDs == 1..MaxKeys

\* With a repeating generator a collision takes one key more.
CollideKeys == MaxKeys + 1

CollideKeyIDs == 1..CollideKeys

PolicyIDs == 1..MaxPolicies

RawKeys == 1..MaxRaw

Times == 0..MaxTime

\* The goroutines that call the engine concurrently.
Callers == 1..MaxCallers

----------------------------------------------------------------------------
\* Values

\* A nil *time.Time / nil *id.PolicyID.
NoTime == -1

NoPolicy == 0

NoKey == 0

NoRaw == 0

\* A caller with no engine call in flight.
Idle == [pc |-> "idle"]

StateActive == "active"

StateRotated == "rotated"

StateExpired == "expired"

StateRevoked == "revoked"

StateSuspended == "suspended"

States == {StateActive, StateRotated, StateExpired, StateRevoked, StateSuspended}

HookKinds ==
    {"KeyCreated", "KeyCreateFailed", "KeyValidated", "KeyValidationFailed",
     "KeyRotated", "KeyRevoked", "KeySuspended", "KeyReactivated", "KeyExpired",
     "KeyRateLimited", "PolicyCreated", "PolicyUpdated", "PolicyDeleted", "Shutdown"}

\* The graceTTL RotateKey uses when the policy gives none (24h), in ticks.
DefaultGraceTTL == 2

\* A faulty hasher: the fingerprint is the raw key itself.
HashPlain(rawKey) == rawKey

\* sha256Hasher.Hash: deterministic, distinct raw keys get distinct
\* fingerprints, and a fingerprint is never a raw key.
Hash(rawKey) == 100 + ((7 * rawKey) % 11)

\* A faulty Verify: it compares a part of the two fingerprints only.
VerifyLoose(rawKey, hash) == Hash(rawKey) % 2 = hash % 2

\* sha256Hasher.Verify: re-hash and compare.
Verify(rawKey, hash) == Hash(rawKey) = hash

\* rawKey[len(rawKey)-4:]: four characters, shared by many raw keys and never
\* a whole raw key.
Hint(rawKey) == 200 + (rawKey % 2)


----------------------------------------------------------------------------
\* Maps as functions

Put(f, x, v) == [y \in (DOMAIN f) \cup {x} |-> IF y = x THEN v ELSE f[y]]

Drop(f, x) == [y \in (DOMAIN f) \ {x} |-> f[y]]

\* Every ordering of a finite set, as sequences.
Orderings(S) ==
    {q \in [1..Cardinality(S) -> S] : \A i, j \in 1..Cardinality(S) : i # j => q[i] # q[j]}

----------------------------------------------------------------------------
\* plugin.Manager

\* A plug-in: the hook kinds its type implements, and whether its handlers
\* return an error.
PluginShapes ==
    {HookKinds, {"KeyCreated"}, {"KeyCreated", "KeyRevoked", "KeyExpired", "PolicyDeleted"}}

Plugins == [implements : PluginShapes, err : BOOLEAN]

\* A faulty dispatch loop: it remembers the first error but goes on calling
\* the later plug-ins.
RECURSIVE FireFromNoStop(_, _, _)
FireFromNoStop(ps, kind, i) ==
    IF i > Len(ps) THEN [called |-> <<>>, err |-> 0]
    ELSE LET rest == FireFromNoStop(ps, kind, i + 1)
         IN  IF kind \in ps[i].implements
             THEN [called |-> <<i>> \o rest.called,
                   err |-> IF ps[i].err THEN i ELSE rest.err]
             ELSE rest

\* The dispatch loop shared by every Fire<Kind>: from plug-in i on, call the
\* handler of each plug-in that implements `kind`; return at the first error.
\* called: the plug-ins whose handler ran, in order; err: the plug-in whose
\* error is returned (0 for nil).
RECURSIVE FireFrom(_, _, _)
FireFrom(ps, kind, i) ==
    IF i > Len(ps) THEN [called |-> <<>>, err |-> 0]
    ELSE IF kind \in ps[i].implements
         THEN IF ps[i].err
              THEN [called |-> <<i>>, err |-> i]
              ELSE LET rest == FireFrom(ps, kind, i + 1)
                   IN  [called |-> <<i>> \o rest.called, err |-> rest.err]
         ELSE FireFrom(ps, kind, i + 1)

\* A faulty Fire<Kind>: built on the loop that does not stop.
FireNoStop(ps, kind) == FireFromNoStop(ps, kind, 1)

\* Manager.Fire<Kind>: the loop from the first plug-in.
Fire(ps, kind) == FireFrom(ps, kind, 1)

\* One Fire<Kind> call the engine makes, about key or policy `subject`; the
\* engine discards the returned error (`_ = e.hooks.Fire...`).
Hook(kind, subject) ==
    LET d == Fire(plugins, kind)
    IN  [kind |-> kind, subject |-> subject, called |-> d.called, err |-> d.err]

\* Manager.Register
Register(p) ==
    /\ Len(plugins) < MaxPlugins
    /\ plugins' = Append(plugins, p)
    /\ UNCHANGED <<storeVars, ratelimiter, now, ids, issued, rawOf, pendingLastUsed,
                   last, dispatch, calls>>

\* A direct call of Manager.Fire<Kind>, with the number of plug-ins that were
\* registered when it was made.
ManagerFire(kind) ==
    /\ dispatch' = [kind |-> kind, registered |-> Len(plugins)] @@ Fire(plugins, kind)
    /\ UNCHANGED <<storeVars, plugins, ratelimiter, now, ids, issued, rawOf,
                   pendingLastUsed, last, calls>>

----------------------------------------------------------------------------
\* store/memory: the key store

\* keyStore.Create
KeyStoreCreate(K, H, kid, k) ==
    [keys |-> Put(K, kid, k), hashIndex |-> Put(H, k.KeyHash, kid)]

\* keyStore.GetByHash: the key id, or NoKey for errNotFound.
GetByHash(K, H, hash) ==
    IF hash \notin DOMAIN H THEN NoKey
    ELSE IF H[hash] \notin DOMAIN K THEN NoKey
    ELSE H[hash]

\* A faulty keyStore.Update: it indexes the new hash and forgets to drop the
\* old one.
KeyStoreUpdateKeepsOldHash(K, H, kid, k) ==
    [keys |-> Put(K, kid, k), hashIndex |-> Put(H, k.KeyHash, kid)]

\* keyStore.Update (the caller has checked k's id is stored)
KeyStoreUpdate(K, H, kid, k) ==
    [keys |-> Put(K, kid, k),
     hashIndex |-> IF K[kid].KeyHash # k.KeyHash
                   THEN Put(Drop(H, K[kid].KeyHash), k.KeyHash, kid)
                   ELSE H]

\* keyStore.Delete (the caller has checked kid is stored): the index entry of
\* the key's hash, the key and its scope assignments go.
KeyStoreDelete(K, H, KS, kid) ==
    [keys |-> Drop(K, kid),
     hashIndex |-> Drop(H, K[kid].KeyHash),
     keyScopes |-> Drop(KS, kid)]

\* keyStore.DeleteByTenant: the same for every key of the tenant.
KeyStoreDeleteByTenant(K, H, KS, tenant) ==
    LET gone == {kid \in DOMAIN K : K[kid].TenantID = tenant}
        hashes == {K[kid].KeyHash : kid \in gone}
    IN  [keys |-> [kid \in (DOMAIN K) \ gone |-> K[kid]],
         hashIndex |-> [h \in (DOMAIN H) \ hashes |-> H[h]],
         keyScopes |-> [kid \in (DOMAIN KS) \ gone |-> KS[kid]]]

\* A faulty keyStore.UpdateState: it finds the key and writes nothing.
UpdateStateNoWrite(K, kid, state, t) == K

\* keyStore.UpdateState.  (It also stamps Key.UpdatedAt with t, a field the
\* model's Key does not keep.)
UpdateState(K, kid, state, t) ==
    [K EXCEPT ![kid] = [@ EXCEPT !.State = state]]

\* keyStore.UpdateLastUsed
UpdateLastUsed(K, kid, at) == [K EXCEPT ![kid] = [@ EXCEPT !.LastUsedAt = at]]

\* A faulty keyStore.ListExpired: keys in any state are listed.
ListExpiredAnyState(K, before) ==
    {kid \in DOMAIN K : K[kid].ExpiresAt # NoTime /\ K[kid].ExpiresAt < before}

\* keyStore.ListExpired: ids of the keys it returns
ListExpired(K, before) ==
    {kid \in DOMAIN K :
        /\ K[kid].State = StateActive
        /\ K[kid].ExpiresAt # NoTime
        /\ K[kid].ExpiresAt < before}

\* A faulty keyStore.ListByPolicy: it lists active keys only.
ListByPolicyActiveOnly(K, pid) ==
    {kid \in DOMAIN K :
        K[kid].PolicyID # NoPolicy /\ K[kid].PolicyID = pid /\ K[kid].State = StateActive}

\* keyStore.ListByPolicy: ids of the keys it returns
ListByPolicy(K, pid) == {kid \in DOMAIN K : K[kid].PolicyID # NoPolicy /\ K[kid].PolicyID = pid}

\* A faulty rotationStore.Create: it files the record under its key, so a
\* key keeps only its latest record.
RotationStoreCreateLatestOnly(R, rid, rec) ==
    Put([r \in {x \in DOMAIN R : R[x].KeyID # rec.KeyID} |-> R[r]], rid, rec)

\* rotationStore.Create
RotationStoreCreate(R, rid, rec) == Put(R, rid, rec)

\* rotationStore.ListPendingGrace: ids of the records it returns
ListPendingGrace(R, t) == {rid \in DOMAIN R : R[rid].GraceEnds > t}

\* rotationStore.LatestForKey: the records it may return (map iteration order
\* decides between records created at the same instant); empty for errNotFound.
LatestForKey(R, kid) ==
    {rid \in DOMAIN R :
        /\ R[rid].KeyID = kid
        /\ \A other \in DOMAIN R :
              R[other].KeyID = kid => R[other].CreatedAt <= R[rid].CreatedAt}

\* scopeStore.ListByKey: the scope rows it returns
ListByKey(S, KS, kid) ==
    {sc \in S : kid \in DOMAIN KS /\ sc.Name \in KS[kid]}

\* scopeStore.AssignToKey
AssignToKey(KS, kid, names) ==
    Put(KS, kid, (IF kid \in DOMAIN KS THEN KS[kid] ELSE {}) \cup names)

\* A faulty scopeStore.RemoveFromKey: it drops the key's whole entry.
RemoveFromKeyAll(KS, kid, names) == Drop(KS, kid)

\* scopeStore.RemoveFromKey (delete on a missing entry does nothing)
RemoveFromKey(KS, kid, names) ==
    IF kid \in DOMAIN KS THEN Put(KS, kid, KS[kid] \ names) ELSE KS

\* scopeStore.Create: the row is filed under its id.
ScopeStoreCreate(S, sc) == S \cup {sc}

\* scopeStore.Delete (the caller has checked the id is stored)
ScopeStoreDelete(S, sid) == {sc \in S : sc.ID # sid}


----------------------------------------------------------------------------
\* Engine

\* What one step returned: the operation, the key and policy it was about, the
\* raw key passed in or handed back, the error, the Fire<Kind> calls made and
\* (ValidateKey) the scope rows loaded.
Result(op, kid, pid, rawKey, oldRaw, err, hooks, scs) ==
    [op |-> op, key |-> kid, policy |-> pid, raw |-> rawKey, oldRaw |-> oldRaw,
     err |-> err, hooks |-> hooks, scopes |-> scs, names |-> {}]

\* The result of a ValidateKey call, with the number of calls of the
\* limiter's Allow it made.
Asked(result, allowCalls) == result @@ [limiter |-> allowCalls]

\* The result of a call that was given scope names (CreateKeyInput.Scopes,
\* scopeNames).
WithNames(result, names) == [result EXCEPT !.names = names]

\* A faulty state check: only suspended keys are rejected.
StatePassesUnlessSuspended(state) == state # StateSuspended

\* ValidateKey's state check: `k.State != StateActive && k.State != StateRotated`
\* rejects.
StatePasses(state) == state = StateActive \/ state = StateRotated

\* A faulty expiry check: the key counts as expired from the instant
\* ExpiresAt on (`!time.Now().Before(*k.ExpiresAt)`).
ExpiredFromInstant(k, t) == k.ExpiresAt # NoTime /\ t >= k.ExpiresAt

\* ValidateKey's expiry check: `k.ExpiresAt != nil && time.Now().After(*k.ExpiresAt)`.
Expired(k, t) == k.ExpiresAt # NoTime /\ t > k.ExpiresAt

\* A faulty grace check: the window never closes.
GraceOverNever(kid, t) == {FALSE}

\* ValidateKey's grace check on a rotated key: the answers it can get, one per
\* record LatestForKey may return; FALSE when there is no record.
GraceOver(kid, t) ==
    IF LatestForKey(rotations, kid) = {} THEN {FALSE}
    ELSE {t > rotations[rid].GraceEnds : rid \in LatestForKey(rotations, kid)}

\* ValidateKey's policy load: `pol, _ = e.store.Policies().Get(...)`; NoPolicy
\* for a nil pol.
LoadedPolicy(k) ==
    IF k.PolicyID # NoPolicy /\ k.PolicyID \in DOMAIN policies THEN k.PolicyID ELSE NoPolicy

\* A faulty test: the limiter is asked whatever the policy's RateLimit.
LimiterConsultedAnyLimit(k) ==
    /\ LoadedPolicy(k) # NoPolicy
    /\ ratelimiter

\* ValidateKey asks the limiter: `pol != nil && e.ratelimiter != nil && pol.RateLimit > 0`.
LimiterConsulted(k) ==
    /\ LoadedPolicy(k) # NoPolicy
    /\ ratelimiter
    /\ policies[LoadedPolicy(k)].RateLimit > 0

\* A faulty expiry: a policy's lifetime also replaces the expiry the caller
\* supplied.
CreateExpiryAlwaysCeiling(pid, expiresAt, t) ==
    IF pid # NoPolicy /\ policies[pid].MaxKeyLifetime > 0
    THEN t + policies[pid].MaxKeyLifetime
    ELSE expiresAt

\* CreateKey's expiry: the policy's MaxKeyLifetime applies when the caller
\* gave no ExpiresAt.
CreateExpiry(pid, expiresAt, t) ==
    IF pid # NoPolicy /\ policies[pid].MaxKeyLifetime > 0 /\ expiresAt = NoTime
    THEN t + policies[pid].MaxKeyLifetime
    ELSE expiresAt

\* A faulty choice of tenant: the input's TenantID wins when there is one.
KeyTenantInputFirst(ctxTenant, inTenant) ==
    IF inTenant = "" THEN ctxTenant ELSE inTenant

\* CreateKey's tenant: the one scopeFromContext finds on the context ("" for
\* none), and input.TenantID only when that is empty.
KeyTenant(ctxTenant, inTenant) ==
    IF ctxTenant = "" THEN inTenant ELSE ctxTenant

\* The key CreateKey builds, once the policy (when one is named) has loaded.
NewKey(rawKey, ctxTenant, inTenant, pid, expiresAt) ==
    [TenantID   |-> KeyTenant(ctxTenant, inTenant),
     Hint       |-> Hint(rawKey),
     KeyHash    |-> Hash(rawKey),
     State      |-> StateActive,
     PolicyID   |-> pid,
     ExpiresAt  |-> CreateExpiry(pid, expiresAt, now),
     LastUsedAt |-> NoTime,
     RotatedAt  |-> NoTime,
     RevokedAt  |-> NoTime]

\* A faulty failure path of CreateKey: it carries on to FireKeyCreated and
\* hands back the raw key.
CreateFailedCarriesOn(pid, rawKey, kid) ==
    Result("CreateKey", kid, pid, rawKey, NoRaw, "store key: store error",
           <<Hook("KeyCreateFailed", kid), Hook("KeyCreated", kid)>>, {})

\* What CreateKey returns when keyStore.Create fails: FireKeyCreateFailed with
\* the key it built, then `return nil, fmt.Errorf("store key: %w", err)`.
CreateFailed(pid, rawKey, kid) ==
    Result("CreateKey", NoKey, pid, NoRaw, NoRaw, "store key: store error",
           <<Hook("KeyCreateFailed", kid)>>, {})

\* Engine.CreateKey.  ctxTenant is the tenant on the context ("" for none);
\* createErr: keyStore.Create fails (the in-memory store's never does).
\* Key ids come from id.NewKeyID and are never reused; the model numbers the
\* stored keys.  Of Key, the model keeps the fields the engine and the stores
\* act on; Name, Description, Prefix, Environment, Metadata, CreatedBy, AppID,
\* CreatedAt and UpdatedAt are written once here (UpdatedAt on every write)
\* and never read back.
CreateKeyWith(rawKey, ctxTenant, inTenant, pid, expiresAt, names, createErr) ==
    /\ issued' = issued \cup {rawKey}
    /\ IF pid # NoPolicy /\ pid \notin DOMAIN policies
       THEN /\ last' = Result("CreateKey", NoKey, pid, NoRaw, NoRaw,
                              "get policy: not found", <<>>, {})
            /\ UNCHANGED <<storeVars, ids, rawOf, pendingLastUsed>>
       ELSE IF createErr
       THEN /\ last' = CreateFailed(pid, rawKey, ids.key + 1)
            /\ UNCHANGED <<storeVars, ids, rawOf, pendingLastUsed>>
       ELSE LET kid == ids.key + 1
                k == NewKey(rawKey, ctxTenant, inTenant, pid, expiresAt)
                created == KeyStoreCreate(keys, hashIndex, kid, k)
            IN  /\ keys' = created.keys
                /\ hashIndex' = created.hashIndex
                /\ keyScopes' = IF names # {} THEN AssignToKey(keyScopes, kid, names)
                                ELSE keyScopes
                /\ ids' = [ids EXCEPT !.key = kid]
                /\ rawOf' = Put(rawOf, kid, rawKey)
                /\ pendingLastUsed' = Put(pendingLastUsed, kid, 0)
                /\ last' = WithNames(Result("CreateKey", kid, pid, rawKey, NoRaw, "nil",
                                            <<Hook("KeyCreated", kid)>>, {}), names)
                /\ UNCHANGED <<policies, rotations, scopes>>
    /\ UNCHANGED <<plugins, ratelimiter, now, dispatch, calls>>

\* Engine.CreateKey over a store whose Create does not fail.
CreateKey(rawKey, ctxTenant, inTenant, pid, expiresAt, names) ==
    CreateKeyWith(rawKey, ctxTenant, inTenant, pid, expiresAt, names, FALSE)

\* CreateKey step by step, for calls that overlap others: Generate, Hash, the
\* key built and the policy loaded.
CreateKeyLoad(c, rawKey, ctxTenant, pid, expiresAt) ==
    /\ calls[c].pc = "idle"
    /\ issued' = issued \cup {rawKey}
    /\ IF pid # NoPolicy /\ pid \notin DOMAIN policies
       THEN /\ last' = Result("CreateKey", NoKey, pid, NoRaw, NoRaw,
                              "get policy: not found", <<>>, {})
            /\ UNCHANGED calls
       ELSE /\ calls' = [calls EXCEPT ![c] =
                            [pc |-> "insert", raw |-> rawKey, policy |-> pid,
                             k |-> NewKey(rawKey, ctxTenant, "", pid, expiresAt)]]
            /\ last' = Result("CreateKey.LoadPolicy", NoKey, pid, NoRaw, NoRaw, "nil",
                              <<>>, {})
    /\ UNCHANGED <<storeVars, plugins, ratelimiter, now, ids, rawOf, pendingLastUsed,
                   dispatch>>

\* The rest of caller c's CreateKey: Keys().Create and FireKeyCreated (no
\* scopes were named).
CreateKeyInsert(c) ==
    LET kid == ids.key + 1
        created == KeyStoreCreate(keys, hashIndex, kid, calls[c].k)
    IN
    /\ calls[c].pc = "insert"
    /\ calls' = [calls EXCEPT ![c] = Idle]
    /\ keys' = created.keys
    /\ hashIndex' = created.hashIndex
    /\ ids' = [ids EXCEPT !.key = kid]
    /\ rawOf' = Put(rawOf, kid, calls[c].raw)
    /\ pendingLastUsed' = Put(pendingLastUsed, kid, 0)
    /\ last' = Result("CreateKey", kid, calls[c].policy, calls[c].raw, NoRaw, "nil",
                      <<Hook("KeyCreated", kid)>>, {})
    /\ UNCHANGED <<policies, rotations, scopes, keyScopes, plugins, ratelimiter, now,
                   issued, dispatch>>

\* The error ValidateKey returns when GetByHash returns one, whichever it is
\* (`return nil, ErrInvalidKey`).  A faulty one would hand on the store's.
LookupFailedAsIs(lookupErr) == IF lookupErr THEN "store error" ELSE "ErrInvalidKey"

LookupFailed(lookupErr) == "ErrInvalidKey"

\* Engine.ValidateKey from the point where GetByHash has returned: kid and k
\* are the id and the copy of the key it returned (NoKey when it failed).
\* admitted: what the limiter's Allow answers if asked (FALSE also stands for
\* an error from it); graceOver: the grace check's answer; lookupErr:
\* GetByHash fails with an error other than not-found (the in-memory store has
\* none; a store behind a connection does).
ValidateLoaded(rawKey, kid, k, admitted, graceOver, lookupErr) ==
    /\ ~admitted => (kid # NoKey /\ LimiterConsulted(k))
    /\ graceOver => (kid # NoKey /\ k.State = StateRotated)
    /\ IF kid = NoKey
       THEN /\ last' = Asked(Result("ValidateKey", NoKey, NoPolicy, rawKey, NoRaw,
                                    LookupFailed(lookupErr),
                                    <<Hook("KeyValidationFailed", NoKey)>>, {}), 0)
            /\ UNCHANGED <<keys, pendingLastUsed>>
       ELSE IF ~StatePasses(k.State)
       THEN /\ last' = Asked(Result("ValidateKey", NoKey, NoPolicy, rawKey, NoRaw,
                                    "ErrKeyInactive",
                                    <<Hook("KeyValidationFailed", NoKey)>>, {}), 0)
            /\ UNCHANGED <<keys, pendingLastUsed>>
       ELSE IF Expired(k, now)
       THEN /\ keys' = UpdateState(keys, kid, StateExpired, now)
            /\ last' = Asked(Result("ValidateKey", NoKey, NoPolicy, rawKey, NoRaw,
                                    "ErrKeyExpired", <<Hook("KeyExpired", kid)>>, {}), 0)
            /\ UNCHANGED pendingLastUsed
       ELSE IF k.State = StateRotated /\ graceOver
       THEN /\ graceOver \in GraceOver(kid, now)
            /\ keys' = UpdateState(keys, kid, StateRevoked, now)
            /\ last' = Asked(Result("ValidateKey", NoKey, NoPolicy, rawKey, NoRaw,
                                    "ErrKeyRevoked", <<>>, {}), 0)
            /\ UNCHANGED pendingLastUsed
       ELSE IF LimiterConsulted(k) /\ ~admitted
       THEN /\ k.State = StateRotated => graceOver \in GraceOver(kid, now)
            /\ last' = Asked(Result("ValidateKey", NoKey, NoPolicy, rawKey, NoRaw,
                                    "ErrRateLimited", <<Hook("KeyRateLimited", kid)>>, {}), 1)
            /\ UNCHANGED <<keys, pendingLastUsed>>
       ELSE /\ k.State = StateRotated => graceOver \in GraceOver(kid, now)
            /\ pendingLastUsed[kid] < MaxPending
            /\ pendingLastUsed' = [pendingLastUsed EXCEPT ![kid] = @ + 1]
            /\ last' = Asked(Result("ValidateKey", kid, LoadedPolicy(k), rawKey, NoRaw, "nil",
                                    <<Hook("KeyValidated", kid)>>,
                                    ListByKey(scopes, keyScopes, kid)),
                             IF LimiterConsulted(k) THEN 1 ELSE 0)
            /\ UNCHANGED keys
    /\ UNCHANGED <<hashIndex, policies, rotations, scopes, keyScopes, plugins, ratelimiter,
                   now, ids, issued, rawOf, dispatch>>

\* Engine.ValidateKey as one step: the key GetByHash returns is checked at once.
ValidateKeyWith(rawKey, admitted, graceOver, lookupErr) ==
    LET kid == IF lookupErr THEN NoKey ELSE GetByHash(keys, hashIndex, Hash(rawKey))
    IN
    /\ ValidateLoaded(rawKey, kid, IF kid = NoKey THEN Idle ELSE keys[kid],
                      admitted, graceOver, lookupErr)
    /\ UNCHANGED calls

\* Engine.ValidateKey over a store whose lookup fails only with not-found.
ValidateKey(rawKey, admitted, graceOver) == ValidateKeyWith(rawKey, admitted, graceOver, FALSE)

\* ValidateKey step by step, for calls that overlap: GetByHash hands caller c a
\* copy of the key under the store's read lock, and everything after it in the
\* call works on that copy.
ValidateGet(c, rawKey) ==
    LET kid == GetByHash(keys, hashIndex, Hash(rawKey))
    IN
    /\ calls[c].pc = "idle"
    /\ calls' = [calls EXCEPT ![c] =
                    [pc |-> "loaded", raw |-> rawKey, key |-> kid,
                     k |-> IF kid = NoKey THEN Idle ELSE keys[kid]]]
    /\ last' = Result("ValidateKey.GetByHash", kid, NoPolicy, rawKey, NoRaw, "nil", <<>>, {})
    /\ UNCHANGED <<storeVars, plugins, ratelimiter, now, ids, issued, rawOf,
                   pendingLastUsed, dispatch>>

\* The rest of caller c's ValidateKey, on the copy it holds.
ValidateCheck(c, admitted, graceOver) ==
    /\ calls[c].pc = "loaded"
    /\ ValidateLoaded(calls[c].raw, calls[c].key, calls[c].k, admitted, graceOver, FALSE)
    /\ calls' = [calls EXCEPT ![c] = Idle]

\* The goroutine ValidateKey starts: UpdateLastUsed with the time it runs at.
BackgroundLastUsed(kid) ==
    /\ kid \in DOMAIN pendingLastUsed
    /\ pendingLastUsed[kid] > 0
    /\ pendingLastUsed' = [pendingLastUsed EXCEPT ![kid] = @ - 1]
    /\ keys' = IF kid \in DOMAIN keys THEN UpdateLastUsed(keys, kid, now) ELSE keys
    /\ last' = Result("BackgroundLastUsed", kid, NoPolicy, NoRaw, NoRaw, "nil", <<>>, {})
    /\ UNCHANGED <<hashIndex, policies, rotations, scopes, keyScopes, plugins, ratelimiter,
                   now, ids, issued, rawOf, dispatch, calls>>

\* RotateKey's grace TTL: the policy's GracePeriod when the policy loads and
\* gives one, else 24h.
GraceTTL(k) ==
    IF k.PolicyID # NoPolicy /\ k.PolicyID \in DOMAIN policies
       /\ policies[k.PolicyID].GracePeriod > 0
    THEN policies[k.PolicyID].GracePeriod
    ELSE DefaultGraceTTL

\* A faulty rewrite of the key: the rotation marks the key as rotated.
RotatedKeyMarked(k, rawKey, t) ==
    [k EXCEPT !.KeyHash = Hash(rawKey), !.Hint = Hint(rawKey), !.RotatedAt = t,
              !.State = StateRotated]

\* A faulty rewrite of the key: the hint of the old raw key is kept.
RotatedKeyStaleHint(k, rawKey, t) ==
    [k EXCEPT !.KeyHash = Hash(rawKey), !.RotatedAt = t]

\* RotateKey's rewrite of the key it read: new hash, new hint, rotated_at.
RotatedKey(k, rawKey, t) ==
    [k EXCEPT !.KeyHash = Hash(rawKey), !.Hint = Hint(rawKey), !.RotatedAt = t]

\* The rotation record RotateKey builds for key kid, read as `old`.
RotationRecord(kid, old, rawKey, reason, graceTTL, t) ==
    [KeyID      |-> kid,
     TenantID   |-> old.TenantID,
     OldKeyHash |-> old.KeyHash,
     NewKeyHash |-> Hash(rawKey),
     Reason     |-> reason,
     GraceTTL   |-> graceTTL,
     GraceEnds  |-> t + graceTTL,
     CreatedAt  |-> t]

\* The calls of RotateKey that can fail on their own: the generator, the key
\* update, the write of the rotation record.
RotateFaults == {"none", "generate", "update", "record"}

\* Engine.RotateKey.  fault: which of its calls returns an error, if any (the
\* in-memory store's Update fails for a missing key only and its rotation
\* Create never; a store behind a connection can fail in both).
RotateKeyWith(kid, reason, rawKey, fault) ==
    /\ ids.rotation < MaxRotations
    /\ IF kid \notin DOMAIN keys
       THEN /\ last' = Result("RotateKey", NoKey, NoPolicy, NoRaw, NoRaw,
                              "get key: not found", <<>>, {})
            /\ UNCHANGED <<keys, hashIndex, rotations, ids, issued, rawOf>>
       ELSE IF fault = "generate"
       THEN /\ last' = Result("RotateKey", NoKey, NoPolicy, NoRaw, NoRaw,
                              "generate new key: generator error", <<>>, {})
            /\ UNCHANGED <<keys, hashIndex, rotations, ids, issued, rawOf>>
       ELSE IF fault = "update"
       THEN /\ issued' = issued \cup {rawKey}
            /\ last' = Result("RotateKey", NoKey, NoPolicy, NoRaw, NoRaw,
                              "update key: store error", <<>>, {})
            /\ UNCHANGED <<keys, hashIndex, rotations, ids, rawOf>>
       ELSE IF fault = "record"
       THEN LET k == RotatedKey(keys[kid], rawKey, now)
                updated == KeyStoreUpdate(keys, hashIndex, kid, k)
            IN  /\ issued' = issued \cup {rawKey}
                /\ keys' = updated.keys
                /\ hashIndex' = updated.hashIndex
                /\ last' = Result("RotateKey", NoKey, NoPolicy, NoRaw, NoRaw,
                                  "record rotation: store error", <<>>, {})
                /\ UNCHANGED <<rotations, ids, rawOf>>
       ELSE LET k == RotatedKey(keys[kid], rawKey, now)
                updated == KeyStoreUpdate(keys, hashIndex, kid, k)
                rid == ids.rotation + 1
                rec == RotationRecord(kid, keys[kid], rawKey, reason, GraceTTL(keys[kid]), now)
            IN  /\ issued' = issued \cup {rawKey}
                /\ keys' = updated.keys
                /\ hashIndex' = updated.hashIndex
                /\ rotations' = RotationStoreCreate(rotations, rid, rec)
                /\ ids' = [ids EXCEPT !.rotation = rid]
                /\ rawOf' = Put(rawOf, kid, rawKey)
                /\ last' = Result("RotateKey", kid, NoPolicy, rawKey, rawOf[kid], "nil",
                                  <<Hook("KeyRotated", kid)>>, {})
    /\ UNCHANGED <<policies, scopes, keyScopes, plugins, ratelimiter, now, pendingLastUsed,
                   dispatch, calls>>

\* Engine.RotateKey when none of its calls fails on its own.
RotateKey(kid, reason, rawKey) == RotateKeyWith(kid, reason, rawKey, "none")

\* RotateKey step by step, for calls that run concurrently: each step is one
\* store operation with what the call does up to the next one.  The call's
\* local variables live in calls[c].

\* The calls on key kid whose key update has been committed.
Committed(kid) ==
    {d \in Callers : calls[d].pc \in {"record", "returned"} /\ calls[d].key = kid
                        /\ calls[d].commit > 0}

\* The rotations started and not yet recorded.
RotationsInFlight == {d \in Callers : calls[d].pc \in {"policy", "update", "record"}}

\* `k, err := e.store.Keys().Get(ctx, keyID)`
RotateGet(c, kid, reason) ==
    /\ calls[c].pc = "idle"
    /\ ids.rotation + Cardinality(RotationsInFlight) < MaxRotations
    /\ calls' = [calls EXCEPT ![c] =
                    IF kid \notin DOMAIN keys
                    THEN [pc |-> "returned", op |-> "RotateKey", key |-> kid, commit |-> 0,
                          raw |-> NoRaw, err |-> "get key: not found"]
                    ELSE [pc |-> "policy", op |-> "RotateKey", key |-> kid, commit |-> 0,
                          reason |-> reason, k |-> keys[kid], oldRaw |-> rawOf[kid]]]
    /\ UNCHANGED <<storeVars, plugins, ratelimiter, now, ids, issued, rawOf,
                   pendingLastUsed, last, dispatch>>

\* `graceTTL := 24 * time.Hour` and the policy read that may replace it.
RotateLoadGrace(c) ==
    /\ calls[c].pc = "policy"
    /\ calls' = [calls EXCEPT ![c] =
                    [pc |-> "update", graceTTL |-> GraceTTL(calls[c].k)] @@ calls[c]]
    /\ UNCHANGED <<storeVars, plugins, ratelimiter, now, ids, issued, rawOf,
                   pendingLastUsed, last, dispatch>>

\* Generate, Hash, the rewrite of the local key and `e.store.Keys().Update(ctx, k)`.
RotateUpdate(c, rawKey) ==
    LET kid == calls[c].key
        k == RotatedKey(calls[c].k, rawKey, now)
    IN
    /\ calls[c].pc = "update"
    /\ issued' = issued \cup {rawKey}
    /\ IF kid \notin DOMAIN keys
       THEN /\ calls' = [calls EXCEPT ![c] =
                            [pc |-> "returned", op |-> "RotateKey", key |-> kid,
                             commit |-> 0, raw |-> NoRaw, err |-> "update key: not found",
                             oldHash |-> calls[c].k.KeyHash]]
            /\ UNCHANGED <<keys, hashIndex>>
       ELSE LET updated == KeyStoreUpdate(keys, hashIndex, kid, k)
            IN  /\ keys' = updated.keys
                /\ hashIndex' = updated.hashIndex
                /\ calls' = [calls EXCEPT ![c] =
                                [pc |-> "record",
                                 commit |-> Cardinality(Committed(kid)) + 1,
                                 raw |-> rawKey,
                                 rec |-> RotationRecord(kid, calls[c].k, rawKey,
                                                        calls[c].reason, calls[c].graceTTL, now)]
                                @@ calls[c]]
    /\ UNCHANGED <<policies, rotations, scopes, keyScopes, plugins, ratelimiter, now, ids,
                   rawOf, pendingLastUsed, last, dispatch>>

\* `e.store.Rotations().Create(ctx, rec)`, FireKeyRotated and the return.
RotateRecord(c) ==
    LET kid == calls[c].key
        rid == ids.rotation + 1
    IN
    /\ calls[c].pc = "record"
    /\ rotations' = RotationStoreCreate(rotations, rid, calls[c].rec)
    /\ ids' = [ids EXCEPT !.rotation = rid]
    /\ rawOf' = Put(rawOf, kid, calls[c].raw)
    /\ last' = Result("RotateKey", kid, NoPolicy, calls[c].raw, calls[c].oldRaw, "nil",
                      <<Hook("KeyRotated", kid)>>, {})
    /\ calls' = [calls EXCEPT ![c] =
                    [pc |-> "returned", op |-> "RotateKey", key |-> kid,
                     commit |-> calls[c].commit, raw |-> calls[c].raw, err |-> "nil",
                     oldHash |-> calls[c].rec.OldKeyHash]]
    /\ UNCHANGED <<keys, hashIndex, policies, scopes, keyScopes, plugins, ratelimiter, now,
                   issued, pendingLastUsed, dispatch>>

\* A faulty rewrite of the key: only an active key is revoked.
RevokedKeyActiveOnly(k, t) ==
    IF k.State = StateActive THEN [k EXCEPT !.State = StateRevoked, !.RevokedAt = t] ELSE k

\* RevokeKey's rewrite of the key it read: revoked, revoked_at stamped,
\* whatever its state was.
RevokedKey(k, t) == [k EXCEPT !.State = StateRevoked, !.RevokedAt = t]

\* Engine.RevokeKey
RevokeKey(kid, reason) ==
    /\ IF kid \notin DOMAIN keys
       THEN /\ last' = Result("RevokeKey", NoKey, NoPolicy, NoRaw, NoRaw,
                              "get key: not found", <<>>, {})
            /\ UNCHANGED <<keys, hashIndex>>
       ELSE LET k == RevokedKey(keys[kid], now)
                updated == KeyStoreUpdate(keys, hashIndex, kid, k)
            IN  /\ keys' = updated.keys
                /\ hashIndex' = updated.hashIndex
                /\ last' = Result("RevokeKey", kid, NoPolicy, NoRaw, NoRaw, "nil",
                                  <<Hook("KeyRevoked", kid) @@ [reason |-> reason]>>, {})
    /\ UNCHANGED <<policies, rotations, scopes, keyScopes, plugins, ratelimiter, now, ids,
                   issued, rawOf, pendingLastUsed, dispatch, calls>>

\* Engine.SuspendKey
SuspendKey(kid) ==
    /\ IF kid \notin DOMAIN keys
       THEN /\ last' = Result("SuspendKey", NoKey, NoPolicy, NoRaw, NoRaw,
                              "suspend key: not found", <<>>, {})
            /\ UNCHANGED keys
       ELSE /\ keys' = UpdateState(keys, kid, StateSuspended, now)
            /\ last' = Result("SuspendKey", kid, NoPolicy, NoRaw, NoRaw, "nil",
                              <<Hook("KeySuspended", kid)>>, {})
    /\ UNCHANGED <<hashIndex, policies, rotations, scopes, keyScopes, plugins, ratelimiter,
                   now, ids, issued, rawOf, pendingLastUsed, dispatch, calls>>

\* A faulty state check: every key that is not active may be reactivated.
MayReactivateInactive(state) == state # StateActive

\* ReactivateKey's state check: `k.State != key.StateSuspended` is refused.
MayReactivate(state) == state = StateSuspended

\* Engine.ReactivateKey
ReactivateKey(kid) ==
    /\ IF kid \notin DOMAIN keys
       THEN /\ last' = Result("ReactivateKey", NoKey, NoPolicy, NoRaw, NoRaw,
                              "get key: not found", <<>>, {})
            /\ UNCHANGED keys
       ELSE IF ~MayReactivate(keys[kid].State)
       THEN /\ last' = Result("ReactivateKey", kid, NoPolicy, NoRaw, NoRaw,
                              "ErrInvalidStateTransition", <<>>, {})
            /\ UNCHANGED keys
       ELSE /\ keys' = UpdateState(keys, kid, StateActive, now)
            /\ last' = Result("ReactivateKey", kid, NoPolicy, NoRaw, NoRaw, "nil",
                              <<Hook("KeyReactivated", kid)>>, {})
    /\ UNCHANGED <<hashIndex, policies, rotations, scopes, keyScopes, plugins, ratelimiter,
                   now, ids, issued, rawOf, pendingLastUsed, dispatch, calls>>

\* ReactivateKey step by step, for calls that overlap others: Keys().Get and
\* the state check on the copy it returned.
ReactivateGet(c, kid) ==
    /\ calls[c].pc = "idle"
    /\ IF kid \notin DOMAIN keys
       THEN /\ last' = Result("ReactivateKey", NoKey, NoPolicy, NoRaw, NoRaw,
                              "get key: not found", <<>>, {})
            /\ UNCHANGED calls
       ELSE IF ~MayReactivate(keys[kid].State)
       THEN /\ last' = Result("ReactivateKey", kid, NoPolicy, NoRaw, NoRaw,
                              "ErrInvalidStateTransition", <<>>, {})
            /\ UNCHANGED calls
       ELSE /\ calls' = [calls EXCEPT ![c] =
                            [pc |-> "reactivate", key |-> kid, k |-> keys[kid]]]
            /\ last' = Result("ReactivateKey.Get", kid, NoPolicy, NoRaw, NoRaw, "nil",
                              <<>>, {})
    /\ UNCHANGED <<storeVars, plugins, ratelimiter, now, ids, issued, rawOf,
                   pendingLastUsed, dispatch>>

\* The rest of caller c's ReactivateKey: UpdateState(keyID, StateActive) and
\* FireKeyReactivated.
ReactivateUpdate(c) ==
    LET kid == calls[c].key
    IN
    /\ calls[c].pc = "reactivate"
    /\ calls' = [calls EXCEPT ![c] = Idle]
    /\ IF kid \notin DOMAIN keys
       THEN /\ last' = Result("ReactivateKey", NoKey, NoPolicy, NoRaw, NoRaw,
                              "reactivate key: not found", <<>>, {})
            /\ UNCHANGED keys
       ELSE /\ keys' = UpdateState(keys, kid, StateActive, now)
            /\ last' = Result("ReactivateKey", kid, NoPolicy, NoRaw, NoRaw, "nil",
                              <<Hook("KeyReactivated", kid)>>, {})
    /\ UNCHANGED <<hashIndex, policies, rotations, scopes, keyScopes, plugins, ratelimiter,
                   now, ids, issued, rawOf, pendingLastUsed, dispatch>>

\* The policies callers create: rate limit, lifetime ceiling and grace period
\* (the fields the engine reads).
PolicyInputs ==
    {[RateLimit |-> 0, MaxKeyLifetime |-> 0, GracePeriod |-> 0],
     [RateLimit |-> 1, MaxKeyLifetime |-> 1, GracePeriod |-> 1]}

\* Engine.CreatePolicy.  Policy ids come from id.NewPolicyID and are never reused.
CreatePolicy(pol, ctxTenant) ==
    /\ ids.policy < MaxPolicies
    /\ LET pid == ids.policy + 1
       IN  /\ policies' = Put(policies, pid, pol @@ [TenantID |-> ctxTenant])
           /\ ids' = [ids EXCEPT !.policy = pid]
           /\ last' = Result("CreatePolicy", NoKey, pid, NoRaw, NoRaw, "nil",
                             <<Hook("PolicyCreated", pid)>>, {})
    /\ UNCHANGED <<keys, hashIndex, rotations, scopes, keyScopes, plugins, ratelimiter, now,
                   issued, rawOf, pendingLastUsed, dispatch, calls>>

\* Engine.UpdatePolicy: the store replaces the whole row.
UpdatePolicy(pid, pol, tenant) ==
    /\ IF pid \notin DOMAIN policies
       THEN /\ last' = Result("UpdatePolicy", NoKey, pid, NoRaw, NoRaw,
                              "update policy: not found", <<>>, {})
            /\ UNCHANGED policies
       ELSE /\ policies' = Put(policies, pid, pol @@ [TenantID |-> tenant])
            /\ last' = Result("UpdatePolicy", NoKey, pid, NoRaw, NoRaw, "nil",
                              <<Hook("PolicyUpdated", pid)>>, {})
    /\ UNCHANGED <<keys, hashIndex, rotations, scopes, keyScopes, plugins, ratelimiter, now,
                   ids, issued, rawOf, pendingLastUsed, dispatch, calls>>

\* DeletePolicy's in-use check: `len(keys) > 0` over ListByPolicy.
PolicyInUse(pid) == ListByPolicy(keys, pid) # {}

\* Engine.DeletePolicy
DeletePolicy(pid) ==
    /\ IF PolicyInUse(pid)
       THEN /\ last' = Result("DeletePolicy", NoKey, pid, NoRaw, NoRaw, "ErrPolicyInUse",
                              <<>>, {})
            /\ UNCHANGED policies
       ELSE IF pid \notin DOMAIN policies
       THEN /\ last' = Result("DeletePolicy", NoKey, pid, NoRaw, NoRaw,
                              "delete policy: not found", <<>>, {})
            /\ UNCHANGED policies
       ELSE /\ policies' = Drop(policies, pid)
            /\ last' = Result("DeletePolicy", NoKey, pid, NoRaw, NoRaw, "nil",
                              <<Hook("PolicyDeleted", pid)>>, {})
    /\ UNCHANGED <<keys, hashIndex, rotations, scopes, keyScopes, plugins, ratelimiter, now,
                   ids, issued, rawOf, pendingLastUsed, dispatch, calls>>

\* DeletePolicy step by step, for calls that overlap others: ListByPolicy and
\* the in-use check.
DeletePolicyCheck(c, pid) ==
    /\ calls[c].pc = "idle"
    /\ IF PolicyInUse(pid)
       THEN /\ last' = Result("DeletePolicy", NoKey, pid, NoRaw, NoRaw, "ErrPolicyInUse",
                              <<>>, {})
            /\ UNCHANGED calls
       ELSE /\ calls' = [calls EXCEPT ![c] = [pc |-> "delete", policy |-> pid]]
            /\ last' = Result("DeletePolicy.ListByPolicy", NoKey, pid, NoRaw, NoRaw, "nil",
                              <<>>, {})
    /\ UNCHANGED <<storeVars, plugins, ratelimiter, now, ids, issued, rawOf,
                   pendingLastUsed, dispatch>>

\* The rest of caller c's DeletePolicy: Policies().Delete and FirePolicyDeleted.
DeletePolicyDelete(c) ==
    LET pid == calls[c].policy
    IN
    /\ calls[c].pc = "delete"
    /\ calls' = [calls EXCEPT ![c] = Idle]
    /\ IF pid \notin DOMAIN policies
       THEN /\ last' = Result("DeletePolicy", NoKey, pid, NoRaw, NoRaw,
                              "delete policy: not found", <<>>, {})
            /\ UNCHANGED policies
       ELSE /\ policies' = Drop(policies, pid)
            /\ last' = Result("DeletePolicy", NoKey, pid, NoRaw, NoRaw, "nil",
                              <<Hook("PolicyDeleted", pid)>>, {})
    /\ UNCHANGED <<keys, hashIndex, rotations, scopes, keyScopes, plugins, ratelimiter, now,
                   ids, issued, rawOf, pendingLastUsed, dispatch>>

\* UpdateState applied to each key of a set (not-found ones are logged and skipped).
RECURSIVE UpdateStates(_, _, _, _)
UpdateStates(K, kids, state, t) ==
    IF kids = {} THEN K
    ELSE LET kid == CHOOSE x \in kids : TRUE
         IN  UpdateStates(IF kid \in DOMAIN K THEN UpdateState(K, kid, state, t) ELSE K,
                          kids \ {kid}, state, t)

\* Engine.CreateScope.  Of Scope, the model keeps ID, TenantID and Name.
CreateScope(ctxTenant, name) ==
    LET sid == ids.scope + 1
        sc == [ID |-> sid, TenantID |-> ctxTenant, Name |-> name]
    IN
    /\ scopes' = ScopeStoreCreate(scopes, sc)
    /\ ids' = [ids EXCEPT !.scope = sid]
    /\ last' = WithNames(Result("CreateScope", NoKey, NoPolicy, NoRaw, NoRaw, "nil", <<>>,
                                {sc}), {name})
    /\ UNCHANGED <<keys, hashIndex, policies, rotations, keyScopes, plugins, ratelimiter,
                   now, issued, rawOf, pendingLastUsed, dispatch, calls>>

\* Engine.DeleteScope
DeleteScope(sid) ==
    /\ IF \E sc \in scopes : sc.ID = sid
       THEN /\ scopes' = ScopeStoreDelete(scopes, sid)
            /\ last' = Result("DeleteScope", NoKey, NoPolicy, NoRaw, NoRaw, "nil", <<>>,
                              {sc \in scopes : sc.ID = sid})
       ELSE /\ last' = Result("DeleteScope", NoKey, NoPolicy, NoRaw, NoRaw,
                              "scope: not found", <<>>, {})
            /\ UNCHANGED scopes
    /\ UNCHANGED <<keys, hashIndex, policies, rotations, keyScopes, plugins, ratelimiter,
                   now, ids, issued, rawOf, pendingLastUsed, dispatch, calls>>

\* Engine.AssignScopes
AssignScopes(kid, names) ==
    /\ keyScopes' = AssignToKey(keyScopes, kid, names)
    /\ last' = WithNames(Result("AssignScopes", kid, NoPolicy, NoRaw, NoRaw, "nil", <<>>, {}),
                         names)
    /\ UNCHANGED <<keys, hashIndex, policies, rotations, scopes, plugins, ratelimiter,
                   now, ids, issued, rawOf, pendingLastUsed, dispatch, calls>>

\* Engine.RemoveScopes
RemoveScopes(kid, names) ==
    /\ keyScopes' = RemoveFromKey(keyScopes, kid, names)
    /\ last' = WithNames(Result("RemoveScopes", kid, NoPolicy, NoRaw, NoRaw, "nil", <<>>, {}),
                         names)
    /\ UNCHANGED <<keys, hashIndex, policies, rotations, scopes, plugins, ratelimiter,
                   now, ids, issued, rawOf, pendingLastUsed, dispatch, calls>>

\* Engine.Store().Keys().UpdateState: a caller that holds the engine writes a
\* key's state through the store the engine hands out.
StoreUpdateState(kid, state) ==
    /\ IF kid \in DOMAIN keys
       THEN /\ keys' = UpdateState(keys, kid, state, now)
            /\ last' = Result("Store.UpdateState", kid, NoPolicy, NoRaw, NoRaw, "nil", <<>>, {})
       ELSE /\ last' = Result("Store.UpdateState", NoKey, NoPolicy, NoRaw, NoRaw,
                              "key: not found", <<>>, {})
            /\ UNCHANGED keys
    /\ UNCHANGED <<hashIndex, policies, rotations, scopes, keyScopes, plugins, ratelimiter,
                   now, ids, issued, rawOf, pendingLastUsed, dispatch, calls>>

\* The listed keys, in the order listed, without those whose UpdateState
\* failed (`continue`).
Swept(order, failing) ==
    LET RECURSIVE From(_)
        From(i) == IF i > Len(order) THEN <<>>
                   ELSE IF order[i] \in failing THEN From(i + 1)
                   ELSE <<order[i]>> \o From(i + 1)
    IN  From(1)

\* Engine.CleanupExpiredKeys; order: the order the store listed the keys in;
\* failing: the listed keys for which UpdateState returns an error.
CleanupExpiredKeysWith(order, failing) ==
    LET swept == Swept(order, failing)
    IN
    /\ order \in Orderings(ListExpired(keys, now))
    /\ failing \subseteq ListExpired(keys, now)
    /\ keys' = UpdateStates(keys, ListExpired(keys, now) \ failing, StateExpired, now)
    /\ last' = Result("CleanupExpiredKeys", NoKey, NoPolicy, NoRaw, NoRaw, "nil",
                      [i \in 1..Len(swept) |-> Hook("KeyExpired", swept[i])], {})
    /\ UNCHANGED <<hashIndex, policies, rotations, scopes, keyScopes, plugins, ratelimiter,
                   now, ids, issued, rawOf, pendingLastUsed, dispatch, calls>>

\* Engine.CleanupExpiredKeys over a store whose UpdateState succeeds for every
\* key it has just listed.
CleanupExpiredKeys(order) == CleanupExpiredKeysWith(order, {})

\* Engine.CleanupGraceExpired.  The records come from ListPendingGrace(time.Now());
\* the loop reads time.Now() again for each record, so the clock may have moved
\* on to `until` by the end, and a record is acted on when its GraceEnds has
\* passed at the moment the loop reaches it (`late`: the records that was true of).
CleanupGraceExpired(until, late) ==
    /\ until >= now
    /\ late \subseteq {rid \in ListPendingGrace(rotations, now) : until > rotations[rid].GraceEnds}
    /\ until = now => late = {}
    /\ keys' = UpdateStates(keys, {rotations[rid].KeyID : rid \in late}, StateRevoked, until)
    /\ now' = until
    /\ last' = Result("CleanupGraceExpired", NoKey, NoPolicy, NoRaw, NoRaw, "nil", <<>>, {})
    /\ UNCHANGED <<hashIndex, policies, rotations, scopes, keyScopes, plugins, ratelimiter,
                   ids, issued, rawOf, pendingLastUsed, dispatch, calls>>

\* Engine.Stop: returns what FireShutdown returns.
Stop ==
    /\ last' = Result("Stop", NoKey, NoPolicy, NoRaw, NoRaw,
                      IF Hook("Shutdown", NoKey).err = 0 THEN "nil" ELSE "hook error",
                      <<Hook("Shutdown", NoKey)>>, {})
    /\ UNCHANGED <<storeVars, plugins, ratelimiter, now, ids, issued, rawOf, pendingLastUsed,
                   dispatch, calls>>

\* Time passes.
TickUntil(horizon) ==
    /\ now < horizon
    /\ now' = now + 1
    /\ last' = Result("Tick", NoKey, NoPolicy, NoRaw, NoRaw, "nil", <<>>, {})
    /\ UNCHANGED <<storeVars, plugins, ratelimiter, ids, issued, rawOf, pendingLastUsed,
                   dispatch, calls>>

Tick == TickUntil(MaxTime)


----------------------------------------------------------------------------
\* The system

\* The plug-ins an engine is built with (WithExtension): a plug-in
\* for KeyCreated only, then one whose handlers all fail, then one whose
\* handlers all succeed.
EngineExtensions ==
    {<<[implements |-> {"KeyCreated"}, err |-> FALSE],
       [implements |-> HookKinds, err |-> TRUE],
       [implements |-> HookKinds, err |-> FALSE]>>}

\* What callers pass in.
CtxTenants == {"t1"}

InputTenants == {""}

ScopeInputs == {{}}

ExpiryInputs == {NoTime} \cup Times

Reasons == {"manual"}

RevokeReasons == {"compromised"}

Init ==
    /\ keys = <<>>
    /\ hashIndex = <<>>
    /\ policies = <<>>
    /\ rotations = <<>>
    /\ scopes = {}
    /\ keyScopes = <<>>
    /\ plugins \in EngineExtensions
    /\ ratelimiter \in BOOLEAN
    /\ now = 0
    /\ ids = [key |-> 0, policy |-> 0, rotation |-> 0, scope |-> 0]
    /\ issued = {}
    /\ rawOf = <<>>
    /\ pendingLastUsed = <<>>
    /\ last = Result("NewEngine", NoKey, NoPolicy, NoRaw, NoRaw, "nil", <<>>, {})
    /\ dispatch = [kind |-> "none", registered |-> 0, called |-> <<>>, err |-> 0]
    /\ calls = [c \in Callers |-> Idle]

\* The default generator: 32 bytes from crypto/rand, so a raw key is not
\* produced twice.  Raw keys are interchangeable; the model numbers them in
\* the order they are generated.
NeverIssued(rawKey) ==
    /\ rawKey \notin issued
    /\ \A r \in RawKeys : r < rawKey => r \in issued

\* The engine with the default generator, its callers, the goroutines it
\* starts and the clock.
Next ==
    \/ \E rawKey \in RawKeys, ct \in CtxTenants, it \in InputTenants,
          pid \in {NoPolicy} \cup PolicyIDs, exp \in ExpiryInputs, names \in ScopeInputs :
          ids.key < MaxKeys /\ NeverIssued(rawKey)
             /\ CreateKey(rawKey, ct, it, pid, exp, names)
    \/ \E rawKey \in RawKeys, admitted \in BOOLEAN, graceOver \in BOOLEAN :
          ValidateKey(rawKey, admitted, graceOver)
    \/ \E kid \in KeyIDs : BackgroundLastUsed(kid)
    \/ \E kid \in KeyIDs, reason \in Reasons, rawKey \in RawKeys :
          NeverIssued(rawKey) /\ RotateKey(kid, reason, rawKey)
    \/ \E kid \in KeyIDs, reason \in RevokeReasons : RevokeKey(kid, reason)
    \/ \E kid \in KeyIDs : SuspendKey(kid)
    \/ \E kid \in KeyIDs : ReactivateKey(kid)
    \/ \E pol \in PolicyInputs, ct \in CtxTenants : CreatePolicy(pol, ct)
    \/ \E pid \in PolicyIDs, pol \in PolicyInputs, ct \in CtxTenants : UpdatePolicy(pid, pol, ct)
    \/ \E pid \in PolicyIDs : DeletePolicy(pid)
    \/ \E order \in Orderings(ListExpired(keys, now)) : CleanupExpiredKeys(order)
    \/ \E until \in now..MaxTime :
          \E late \in SUBSET {rid \in DOMAIN rotations : until > rotations[rid].GraceEnds} :
             CleanupGraceExpired(until, late)
    \/ Stop
    \/ Tick

Spec == Init /\ [][Next]_vars

\* The engine with a generator that may repeat itself (WithKeyGenerator, or
\* a collision of the default one): any raw key can come out.  Keys are
\* created without policy, expiry or scopes, and the clock stands still.
NextCollide ==
    \/ \E rawKey \in RawKeys, ct \in CtxTenants, it \in InputTenants :
          ids.key < CollideKeys /\ CreateKey(rawKey, ct, it, NoPolicy, NoTime, {})
    \/ \E rawKey \in RawKeys : ValidateKey(rawKey, TRUE, FALSE)
    \/ \E kid \in CollideKeyIDs : BackgroundLastUsed(kid)
    \/ \E kid \in CollideKeyIDs, reason \in RevokeReasons : RevokeKey(kid, reason)
    \/ \E kid \in CollideKeyIDs : SuspendKey(kid)
    \/ \E kid \in CollideKeyIDs : ReactivateKey(kid)

SpecCollide == Init /\ [][NextCollide]_vars

\* Concurrent rotations: keys without policy or expiry, callers that each
\* run one RotateKey step by step, and validations; the clock stands still.
NextRotate ==
    \/ \E rawKey \in RawKeys, ct \in CtxTenants, it \in InputTenants :
          ids.key < MaxKeys /\ NeverIssued(rawKey)
             /\ CreateKey(rawKey, ct, it, NoPolicy, NoTime, {})
    \/ \E c \in Callers, kid \in KeyIDs, reason \in Reasons : RotateGet(c, kid, reason)
    \/ \E c \in Callers : RotateLoadGrace(c)
    \/ \E c \in Callers, rawKey \in RawKeys : NeverIssued(rawKey) /\ RotateUpdate(c, rawKey)
    \/ \E c \in Callers : RotateRecord(c)
    \/ \E rawKey \in RawKeys : ValidateKey(rawKey, TRUE, FALSE)
    \/ \E kid \in KeyIDs : BackgroundLastUsed(kid)

SpecRotate == Init /\ [][NextRotate]_vars

\* Scopes: two tenants that create and delete scopes, keys of the first
\* tenant created with and without scope names, names assigned and removed,
\* and validations.
ScopeTenants == {"t1", "t2"}

ScopeNames == {"read", "write"}

ScopeIDs == 1..MaxScopes

NextScopes ==
    \/ \E rawKey \in RawKeys, ct \in CtxTenants, names \in SUBSET ScopeNames :
          ids.key < CollideKeys /\ NeverIssued(rawKey)
             /\ CreateKey(rawKey, ct, "", NoPolicy, NoTime, names)
    \/ \E ct \in ScopeTenants, name \in ScopeNames :
          ids.scope < MaxScopes /\ CreateScope(ct, name)
    \/ \E sid \in ScopeIDs : DeleteScope(sid)
    \/ \E kid \in CollideKeyIDs, names \in SUBSET ScopeNames : AssignScopes(kid, names)
    \/ \E kid \in CollideKeyIDs, names \in SUBSET ScopeNames : RemoveScopes(kid, names)
    \/ \E rawKey \in RawKeys : ValidateKey(rawKey, TRUE, FALSE)
    \/ \E kid \in CollideKeyIDs : BackgroundLastUsed(kid)

\* No rate limiter is configured (the keys have no policy to limit them by).
InitScopes == Init /\ ratelimiter = FALSE

SpecScopes == InitScopes /\ [][NextScopes]_vars

\* Tenants: keys created with and without a tenant on the context and with and
\* without a TenantID in the input, validated and revoked.
TenantsOnContext == {"", "t1"}

TenantInputs == {"", "t1", "t2"}

NextTenant ==
    \/ \E rawKey \in RawKeys, ct \in TenantsOnContext, it \in TenantInputs :
          ids.key < CollideKeys /\ NeverIssued(rawKey)
             /\ CreateKey(rawKey, ct, it, NoPolicy, NoTime, {})
    \/ \E rawKey \in RawKeys : ValidateKey(rawKey, TRUE, FALSE)
    \/ \E kid \in CollideKeyIDs : BackgroundLastUsed(kid)
    \/ \E kid \in CollideKeyIDs, reason \in RevokeReasons : RevokeKey(kid, reason)

SpecTenant == InitScopes /\ [][NextTenant]_vars

\* A store that can fail: the engine over a Store whose calls may return an
\* error of their own (a lost connection, a cancelled context), which the
\* in-memory store never does.
NextFaults ==
    \/ \E rawKey \in RawKeys, ct \in CtxTenants, names \in SUBSET ScopeNames,
          createErr \in BOOLEAN :
          ids.key < CollideKeys /\ NeverIssued(rawKey)
             /\ CreateKeyWith(rawKey, ct, "", NoPolicy, NoTime, names, createErr)
    \/ \E rawKey \in RawKeys, lookupErr \in BOOLEAN :
          ValidateKeyWith(rawKey, TRUE, FALSE, lookupErr)
    \/ \E kid \in CollideKeyIDs : BackgroundLastUsed(kid)
    \/ \E kid \in CollideKeyIDs, reason \in RevokeReasons : RevokeKey(kid, reason)

SpecFaults == InitScopes /\ [][NextFaults]_vars

\* Key states: keys that a holder of the store puts in any state, rotated
\* included, and that the engine revokes, suspends, reactivates and validates.
StateRevokeReasons == {"compromised", "retired"}

NextStates ==
    \/ \E rawKey \in RawKeys, ct \in CtxTenants :
          ids.key < CollideKeys /\ NeverIssued(rawKey)
             /\ CreateKey(rawKey, ct, "", NoPolicy, NoTime, {})
    \/ \E kid \in CollideKeyIDs, state \in States : StoreUpdateState(kid, state)
    \/ \E kid \in CollideKeyIDs, reason \in StateRevokeReasons : RevokeKey(kid, reason)
    \/ \E kid \in CollideKeyIDs : SuspendKey(kid)
    \/ \E kid \in CollideKeyIDs : ReactivateKey(kid)
    \/ \E rawKey \in RawKeys : ValidateKey(rawKey, TRUE, FALSE)
    \/ \E kid \in CollideKeyIDs : BackgroundLastUsed(kid)

SpecStates == InitScopes /\ [][NextStates]_vars

\* Sweeps: keys with and without an expiry, suspended and revoked, a clock
\* that advances, and sweeps over a store whose UpdateState may fail.
NextSweep ==
    \/ \E rawKey \in RawKeys, ct \in CtxTenants, exp \in ExpiryInputs :
          ids.key < CollideKeys /\ NeverIssued(rawKey)
             /\ CreateKey(rawKey, ct, "", NoPolicy, exp, {})
    \/ \E kid \in CollideKeyIDs : SuspendKey(kid)
    \/ \E kid \in CollideKeyIDs, reason \in RevokeReasons : RevokeKey(kid, reason)
    \/ \E order \in Orderings(ListExpired(keys, now)),
          failing \in SUBSET ListExpired(keys, now) : CleanupExpiredKeysWith(order, failing)
    \/ Tick

SpecSweep == InitScopes /\ [][NextSweep]_vars

\* Grace windows: a key that is rotated, that a holder of the store marks as
\* rotated, suspended or active, and a clock that runs past the end of the
\* default grace window, with sweeps at any time.
GraceHorizon == MaxTime + DefaultGraceTTL

NextGrace ==
    \/ \E rawKey \in RawKeys, ct \in CtxTenants :
          ids.key < MaxKeys /\ NeverIssued(rawKey)
             /\ CreateKey(rawKey, ct, "", NoPolicy, NoTime, {})
    \/ \E kid \in KeyIDs, reason \in Reasons, rawKey \in RawKeys :
          NeverIssued(rawKey) /\ RotateKey(kid, reason, rawKey)
    \/ \E kid \in KeyIDs, state \in {StateActive, StateRotated, StateSuspended} :
          StoreUpdateState(kid, state)
    \/ \E until \in now..GraceHorizon :
          \E late \in SUBSET {rid \in DOMAIN rotations : until > rotations[rid].GraceEnds} :
             CleanupGraceExpired(until, late)
    \/ TickUntil(GraceHorizon)

SpecGrace == InitScopes /\ [][NextGrace]_vars

\* Expiry on validation: keys created with an expiry, a clock, and ValidateKey
\* calls that run one after another or overlap.
NextExpire ==
    \/ \E rawKey \in RawKeys, ct \in CtxTenants, exp \in ExpiryInputs :
          ids.key < MaxKeys /\ NeverIssued(rawKey)
             /\ CreateKey(rawKey, ct, "", NoPolicy, exp, {})
    \/ \E rawKey \in RawKeys, admitted, graceOver \in BOOLEAN :
          ValidateKey(rawKey, admitted, graceOver)
    \/ \E c \in Callers, rawKey \in RawKeys : ValidateGet(c, rawKey)
    \/ \E c \in Callers, admitted, graceOver \in BOOLEAN : ValidateCheck(c, admitted, graceOver)
    \/ \E kid \in KeyIDs : BackgroundLastUsed(kid)
    \/ Tick

SpecExpire == InitScopes /\ [][NextExpire]_vars

\* The hasher on its own: raw keys are hashed, and verified against the
\* fingerprints of raw keys and against strings that are no fingerprint (the
\* raw keys themselves).
HasherKeys == 1..MaxHashed

HasherHashes == {Hash(rawKey) : rawKey \in HasherKeys} \cup HasherKeys

\* Two calls of Hash on one raw key.
HasherHash(rawKey) ==
    /\ last' = [op |-> "Hasher.Hash", raw |-> rawKey, hash |-> Hash(rawKey),
                again |-> Hash(rawKey), err |-> "nil"]
    /\ UNCHANGED <<storeVars, plugins, ratelimiter, now, ids, issued, rawOf,
                   pendingLastUsed, dispatch, calls>>

HasherVerify(rawKey, hash) ==
    /\ last' = [op |-> "Hasher.Verify", raw |-> rawKey, hash |-> hash,
                ok |-> Verify(rawKey, hash), err |-> "nil"]
    /\ UNCHANGED <<storeVars, plugins, ratelimiter, now, ids, issued, rawOf,
                   pendingLastUsed, dispatch, calls>>

NextHasher ==
    \/ \E rawKey \in HasherKeys : HasherHash(rawKey)
    \/ \E rawKey \in HasherKeys, hash \in HasherHashes : HasherVerify(rawKey, hash)

SpecHasher == InitScopes /\ [][NextHasher]_vars

\* Package id: identifiers and their string form.  Strings are sequences of
\* characters.
PrefixKey == <<"a", "k", "e", "y">>

PrefixPolicy == <<"k", "p", "o", "l">>

PrefixUsage == <<"k", "u", "s", "g">>

PrefixRotation == <<"k", "r", "o", "t">>

PrefixScope == <<"k", "s", "c", "p">>

Prefixes == {PrefixKey, PrefixPolicy, PrefixUsage, PrefixRotation, PrefixScope}

\* The suffix alphabet (base32 in a TypeID) and the characters a suffix may
\* start with (`0`..`7` in a TypeID).
SuffixChars == {"0", "7", "z"}

SuffixFirstChars == {"0", "7"}

ValidSuffix(suffix) ==
    /\ Len(suffix) = SuffixLen
    /\ \A i \in DOMAIN suffix : suffix[i] \in SuffixChars
    /\ suffix[1] \in SuffixFirstChars

\* The suffixes typeid.Generate can produce.
Suffixes == {suffix \in [1..SuffixLen -> SuffixChars] : ValidSuffix(suffix)}

\* The ids the constructors (NewKeyID, ...) can return.
GeneratedIDs == [prefix : Prefixes, suffix : Suffixes]

NilID == [prefix |-> <<>>, suffix |-> <<>>]

\* TypeID.String: prefix, "_", suffix (the suffix alone without a prefix).
String(tid) ==
    IF tid.prefix = <<>> THEN tid.suffix ELSE tid.prefix \o <<"_">> \o tid.suffix

\* The position of the last "_" of s, 0 when it has none.
LastSeparator(s) ==
    LET at == {i \in DOMAIN s : s[i] = "_"}
    IN  IF at = {} THEN 0 ELSE CHOOSE i \in at : \A j \in at : j <= i

\* typeid.Parse: split at the last "_", refuse an empty prefix before a
\* separator, a prefix with characters other than letters, a bad suffix.
TypeIDParse(s) ==
    LET sep == LastSeparator(s)
        prefix == IF sep = 0 THEN <<>> ELSE SubSeq(s, 1, sep - 1)
        suffix == SubSeq(s, sep + 1, Len(s))
    IN  IF sep = 1 THEN [err |-> "typeid: empty prefix", id |-> NilID]
        ELSE IF \E i \in DOMAIN prefix : prefix[i] \in {"0", "7"}
        THEN [err |-> "typeid: bad prefix", id |-> NilID]
        ELSE IF ~ValidSuffix(suffix) THEN [err |-> "typeid: bad suffix", id |-> NilID]
        ELSE [err |-> "nil", id |-> [prefix |-> prefix, suffix |-> suffix]]

\* A faulty parser: the prefix is not compared (what ParseAny does).
parseAnyPrefix(expected, s) == TypeIDParse(s)

\* parseWithPrefix
parseWithPrefix(expected, s) ==
    LET parsed == TypeIDParse(s)
    IN  IF parsed.err # "nil" THEN parsed
        ELSE IF parsed.id.prefix # expected
        THEN [err |-> "id: expected prefix", id |-> parsed.id]
        ELSE parsed

\* A constructor of the kind with this prefix returns an id.
NewID(prefix, suffix) ==
    /\ last' = [op |-> "id.New", id |-> [prefix |-> prefix, suffix |-> suffix], err |-> "nil"]
    /\ UNCHANGED <<storeVars, plugins, ratelimiter, now, ids, issued, rawOf,
                   pendingLastUsed, dispatch, calls>>

\* Parse<Kind>ID, for the kind with prefix `expected`, on the string of id tid.
ParseID(expected, tid) ==
    LET parsed == parseWithPrefix(expected, String(tid))
    IN
    /\ last' = [op |-> "id.Parse", expected |-> expected, of |-> tid,
                input |-> String(tid), err |-> parsed.err, id |-> parsed.id]
    /\ UNCHANGED <<storeVars, plugins, ratelimiter, now, ids, issued, rawOf,
                   pendingLastUsed, dispatch, calls>>

NextID ==
    \/ \E prefix \in Prefixes, suffix \in Suffixes : NewID(prefix, suffix)
    \/ \E expected \in Prefixes, tid \in GeneratedIDs : ParseID(expected, tid)

SpecID == InitScopes /\ [][NextID]_vars

\* A revocation next to rotations in flight: callers that each run one
\* RotateKey step by step, RevokeKey calls between their steps, validations.
NextRevokeRace ==
    \/ \E rawKey \in RawKeys, ct \in CtxTenants :
          ids.key < MaxKeys /\ NeverIssued(rawKey)
             /\ CreateKey(rawKey, ct, "", NoPolicy, NoTime, {})
    \/ \E c \in Callers, kid \in KeyIDs, reason \in Reasons : RotateGet(c, kid, reason)
    \/ \E c \in Callers : RotateLoadGrace(c)
    \/ \E c \in Callers, rawKey \in RawKeys : NeverIssued(rawKey) /\ RotateUpdate(c, rawKey)
    \/ \E c \in Callers : RotateRecord(c)
    \/ \E kid \in KeyIDs, reason \in RevokeReasons : RevokeKey(kid, reason)
    \/ \E rawKey \in RawKeys : ValidateKey(rawKey, TRUE, FALSE)
    \/ \E kid \in KeyIDs : BackgroundLastUsed(kid)

SpecRevokeRace == InitScopes /\ [][NextRevokeRace]_vars

\* Reactivation next to other state changes: callers that each run one
\* ReactivateKey in two steps, with SuspendKey, RevokeKey and whole
\* ReactivateKey calls between them.
NextReactivate ==
    \/ \E rawKey \in RawKeys, ct \in CtxTenants :
          ids.key < MaxKeys /\ NeverIssued(rawKey)
             /\ CreateKey(rawKey, ct, "", NoPolicy, NoTime, {})
    \/ \E kid \in KeyIDs : SuspendKey(kid)
    \/ \E kid \in KeyIDs, reason \in RevokeReasons : RevokeKey(kid, reason)
    \/ \E kid \in KeyIDs : ReactivateKey(kid)
    \/ \E c \in Callers, kid \in KeyIDs : ReactivateGet(c, kid)
    \/ \E c \in Callers : ReactivateUpdate(c)
    \/ \E rawKey \in RawKeys : ValidateKey(rawKey, TRUE, FALSE)
    \/ \E kid \in KeyIDs : BackgroundLastUsed(kid)

SpecReactivate == InitScopes /\ [][NextReactivate]_vars

\* Policies deleted next to keys created: callers that each run one CreateKey
\* or one DeletePolicy in two steps, and whole calls between them.
NextPolicyRace ==
    \/ \E pol \in PolicyInputs, ct \in CtxTenants : CreatePolicy(pol, ct)
    \/ \E rawKey \in RawKeys, ct \in CtxTenants, pid \in {NoPolicy} \cup PolicyIDs :
          ids.key < MaxKeys /\ NeverIssued(rawKey)
             /\ CreateKey(rawKey, ct, "", pid, NoTime, {})
    \/ \E c \in Callers, rawKey \in RawKeys, ct \in CtxTenants, pid \in PolicyIDs :
          /\ ids.key + Cardinality({d \in Callers : calls[d].pc = "insert"}) < MaxKeys
          /\ NeverIssued(rawKey)
          /\ CreateKeyLoad(c, rawKey, ct, pid, NoTime)
    \/ \E c \in Callers : CreateKeyInsert(c)
    \/ \E pid \in PolicyIDs : DeletePolicy(pid)
    \/ \E c \in Callers, pid \in PolicyIDs : DeletePolicyCheck(c, pid)
    \/ \E c \in Callers : DeletePolicyDelete(c)
    \/ \E kid \in KeyIDs, reason \in RevokeReasons : RevokeKey(kid, reason)

SpecPolicyRace == InitScopes /\ [][NextPolicyRace]_vars

\* Rotations that fail: RotateKey over a generator and a store whose calls
\* may return an error, and validations of every raw key.
NextRotateFaults ==
    \/ \E rawKey \in RawKeys, ct \in CtxTenants :
          ids.key < MaxKeys /\ NeverIssued(rawKey)
             /\ CreateKey(rawKey, ct, "", NoPolicy, NoTime, {})
    \/ \E kid \in KeyIDs, reason \in Reasons, rawKey \in RawKeys, fault \in RotateFaults :
          NeverIssued(rawKey) /\ RotateKeyWith(kid, reason, rawKey, fault)
    \/ \E rawKey \in RawKeys : ValidateKey(rawKey, TRUE, FALSE)
    \/ \E kid \in KeyIDs : BackgroundLastUsed(kid)

SpecRotateFaults == InitScopes /\ [][NextRotateFaults]_vars

\* The order of ValidateKey's checks: a limiter is configured; keys with and
\* without a policy and an expiry, rotated, put in any live state by a holder
\* of the store, and validated while the clock runs past the grace windows.
InitOrder == Init /\ ratelimiter

\* The policies of this specification: also one that limits the rate and
\* sets no lifetime, so that its keys outlive their grace windows.
OrderPolicies ==
    PolicyInputs \cup {[RateLimit |-> 1, MaxKeyLifetime |-> 0, GracePeriod |-> 0]}

NextOrder ==
    \/ \E pol \in OrderPolicies, ct \in CtxTenants : CreatePolicy(pol, ct)
    \/ \E rawKey \in RawKeys, ct \in CtxTenants, pid \in {NoPolicy} \cup PolicyIDs,
          exp \in ExpiryInputs :
          ids.key < MaxKeys /\ NeverIssued(rawKey)
             /\ CreateKey(rawKey, ct, "", pid, exp, {})
    \/ \E kid \in KeyIDs, reason \in Reasons, rawKey \in RawKeys :
          NeverIssued(rawKey) /\ RotateKey(kid, reason, rawKey)
    \/ \E kid \in KeyIDs, state \in {StateActive, StateRotated, StateSuspended} :
          StoreUpdateState(kid, state)
    \/ \E rawKey \in RawKeys, admitted, graceOver \in BOOLEAN :
          ValidateKey(rawKey, admitted, graceOver)
    \/ \E kid \in KeyIDs : BackgroundLastUsed(kid)
    \/ TickUntil(GraceHorizon)

SpecOrder == InitOrder /\ [][NextOrder]_vars

\* Lifetime ceilings: policies with and without a MaxKeyLifetime, and keys
\* created under them with no expiry or with one up to the horizon.
LifetimeExpiries == {NoTime} \cup (0..GraceHorizon)

NextLifetime ==
    \/ \E pol \in PolicyInputs, ct \in CtxTenants : CreatePolicy(pol, ct)
    \/ \E rawKey \in RawKeys, ct \in CtxTenants, pid \in {NoPolicy} \cup PolicyIDs,
          exp \in LifetimeExpiries :
          ids.key < CollideKeys /\ NeverIssued(rawKey)
             /\ CreateKey(rawKey, ct, "", pid, exp, {})
    \/ \E rawKey \in RawKeys : ValidateKey(rawKey, TRUE, FALSE)
    \/ \E kid \in CollideKeyIDs : BackgroundLastUsed(kid)
    \/ Tick

SpecLifetime == InitScopes /\ [][NextLifetime]_vars

\* The in-memory key store on its own: a caller creates keys (each under a
\* fresh id, with the hash of any raw key), updates them to the hash of any
\* raw key, and deletes them one by one or by tenant.
StoreCreate(rawKey, tenant) ==
    LET kid == ids.key + 1
        created == KeyStoreCreate(keys, hashIndex, kid,
                                  NewKey(rawKey, tenant, "", NoPolicy, NoTime))
    IN
    /\ ids.key < CollideKeys
    /\ keys' = created.keys
    /\ hashIndex' = created.hashIndex
    /\ ids' = [ids EXCEPT !.key = kid]
    /\ last' = Result("Store.Create", kid, NoPolicy, rawKey, NoRaw, "nil", <<>>, {})
    /\ UNCHANGED <<policies, rotations, scopes, keyScopes, plugins, ratelimiter, now,
                   issued, rawOf, pendingLastUsed, dispatch, calls>>

StoreUpdate(kid, rawKey) ==
    /\ IF kid \notin DOMAIN keys
       THEN /\ last' = Result("Store.Update", NoKey, NoPolicy, rawKey, NoRaw,
                              "key: not found", <<>>, {})
            /\ UNCHANGED <<keys, hashIndex>>
       ELSE LET updated == KeyStoreUpdate(keys, hashIndex, kid,
                                          RotatedKey(keys[kid], rawKey, now))
            IN  /\ keys' = updated.keys
                /\ hashIndex' = updated.hashIndex
                /\ last' = Result("Store.Update", kid, NoPolicy, rawKey, NoRaw, "nil",
                                  <<>>, {})
    /\ UNCHANGED <<policies, rotations, scopes, keyScopes, plugins, ratelimiter, now, ids,
                   issued, rawOf, pendingLastUsed, dispatch, calls>>

StoreDelete(kid) ==
    /\ IF kid \notin DOMAIN keys
       THEN /\ last' = Result("Store.Delete", NoKey, NoPolicy, NoRaw, NoRaw,
                              "key: not found", <<>>, {})
            /\ UNCHANGED <<keys, hashIndex, keyScopes>>
       ELSE LET deleted == KeyStoreDelete(keys, hashIndex, keyScopes, kid)
            IN  /\ keys' = deleted.keys
                /\ hashIndex' = deleted.hashIndex
                /\ keyScopes' = deleted.keyScopes
                /\ last' = Result("Store.Delete", kid, NoPolicy, NoRaw, NoRaw, "nil",
                                  <<>>, {})
    /\ UNCHANGED <<policies, rotations, scopes, plugins, ratelimiter, now, ids, issued,
                   rawOf, pendingLastUsed, dispatch, calls>>

StoreDeleteByTenant(tenant) ==
    LET deleted == KeyStoreDeleteByTenant(keys, hashIndex, keyScopes, tenant)
    IN
    /\ keys' = deleted.keys
    /\ hashIndex' = deleted.hashIndex
    /\ keyScopes' = deleted.keyScopes
    /\ last' = Result("Store.DeleteByTenant", NoKey, NoPolicy, NoRaw, NoRaw, "nil", <<>>, {})
           @@ [tenant |-> tenant]
    /\ UNCHANGED <<policies, rotations, scopes, plugins, ratelimiter, now, ids, issued,
                   rawOf, pendingLastUsed, dispatch, calls>>

NextStore ==
    \/ \E rawKey \in RawKeys, tenant \in ScopeTenants : StoreCreate(rawKey, tenant)
    \/ \E kid \in CollideKeyIDs, rawKey \in RawKeys : StoreUpdate(kid, rawKey)
    \/ \E kid \in CollideKeyIDs : StoreDelete(kid)
    \/ \E tenant \in ScopeTenants : StoreDeleteByTenant(tenant)

SpecStore == InitScopes /\ [][NextStore]_vars

\* The hook manager on its own: plug-ins are registered, hooks are fired.
InitHooks ==
    /\ keys = <<>>
    /\ hashIndex = <<>>
    /\ policies = <<>>
    /\ rotations = <<>>
    /\ scopes = {}
    /\ keyScopes = <<>>
    /\ plugins = <<>>
    /\ ratelimiter = FALSE
    /\ now = 0
    /\ ids = [key |-> 0, policy |-> 0, rotation |-> 0, scope |-> 0]
    /\ issued = {}
    /\ rawOf = <<>>
    /\ pendingLastUsed = <<>>
    /\ last = Result("NewManager", NoKey, NoPolicy, NoRaw, NoRaw, "nil", <<>>, {})
    /\ dispatch = [kind |-> "none", registered |-> 0, called |-> <<>>, err |-> 0]
    /\ calls = [c \in Callers |-> Idle]

NextHooks ==
    \/ \E p \in Plugins : Register(p)
    \/ \E kind \in HookKinds : ManagerFire(kind)

SpecHooks == InitHooks /\ [][NextHooks]_vars

----------------------------------------------------------------------------
\* Properties of the key lifecycle

\* revoked and expired are the terminal states.
Terminal(state) == state \in {StateRevoked, StateExpired}

\* The step is a call of the engine operation op (every action records
\* itself in last).
Called(op) == last'.op = op

\* The step is a ValidateKey call given the raw key last handed out for kid.
ValidatedWithRawOf(kid) == Called("ValidateKey") /\ last'.raw = rawOf[kid]

\* The key has no expiry, or one that is still ahead.
Unexpired(k, t) == k.ExpiresAt = NoTime \/ k.ExpiresAt > t

\* C1: once a key's stored state is revoked or expired, no engine operation
\* (RevokeKey, SuspendKey, ReactivateKey, RotateKey, ValidateKey,
\* CleanupExpiredKeys, CleanupGraceExpired) changes it to another state.
TerminalStatesAbsorbing ==
    [][\A kid \in DOMAIN keys :
          Terminal(keys[kid].State) => keys'[kid].State = keys[kid].State]_vars

\* C2: a successful RevokeKey leaves the key stored as revoked and reachable
\* through its hash, and every ValidateKey given the raw key of a key stored
\* as revoked fails with KeyInactive and changes nothing in the store.
ValidateAfterRevokeFails ==
    [][/\ (Called("RevokeKey") /\ last'.err = "nil") =>
             /\ keys'[last'.key].State = StateRevoked
             /\ GetByHash(keys', hashIndex', Hash(rawOf'[last'.key])) = last'.key
       /\ \A kid \in DOMAIN keys :
             (keys[kid].State = StateRevoked /\ ValidatedWithRawOf(kid)) =>
                /\ last'.err = "ErrKeyInactive"
                /\ UNCHANGED storeVars]_vars

\* A key was revoked and a ValidateKey with its raw key has just failed with
\* KeyInactive.
ValidateAfterRevokeFailsWitness ==
    /\ last.op = "ValidateKey"
    /\ last.err = "ErrKeyInactive"
    /\ \E kid \in DOMAIN keys :
          /\ rawOf[kid] = last.raw
          /\ keys[kid].State = StateRevoked
          /\ keys[kid].RevokedAt # NoTime

\* The last call was a successful RotateKey, of a key that was (and is)
\* stored as active and unexpired.
JustRotated ==
    /\ last.op = "RotateKey"
    /\ last.err = "nil"
    /\ keys[last.key].State = StateActive
    /\ Unexpired(keys[last.key], now)

\* What a successful RotateKey leaves behind: the same key ids, the key
\* filed under the new raw key's hash, rotated_at set.
RotateKeepsTheKey ==
    (Called("RotateKey") /\ last'.err = "nil") =>
        /\ DOMAIN keys' = DOMAIN keys
        /\ GetByHash(keys', hashIndex', Hash(last'.raw)) = last'.key
        /\ keys'[last'.key].RotatedAt = now

\* ValidateKey with the pre-rotation raw key, right after the rotation, fails
\* with InvalidKey.
OldRawKeyIsInvalid ==
    (JustRotated /\ Called("ValidateKey") /\ last'.raw = last.oldRaw) =>
        last'.err = "ErrInvalidKey"

KeyHashUnique ==
    \A a, b \in DOMAIN keys : a # b => keys[a].KeyHash # keys[b].KeyHash

\* The keys that name policy pid.
Referencing(pid) == {kid \in DOMAIN keys : keys[kid].PolicyID = pid}

\* C5: DeletePolicy(P) fails with PolicyInUse, leaves P stored and fires no
\* PolicyDeleted hook whenever at least one key in a non-terminal state
\* references P.
DeletePolicyInUseFails ==
    [][\A pid \in DOMAIN policies :
          (/\ Called("DeletePolicy")
           /\ last'.policy = pid
           /\ \E kid \in Referencing(pid) : ~Terminal(keys[kid].State)) =>
              /\ last'.err = "ErrPolicyInUse"
              /\ pid \in DOMAIN policies'
              /\ policies'[pid] = policies[pid]
              /\ \A i \in DOMAIN last'.hooks : last'.hooks[i].kind # "PolicyDeleted"]_vars

\* DeletePolicy has just failed with PolicyInUse on a stored policy that a
\* suspended key references.
DeletePolicyInUseFailsWitness ==
    /\ last.op = "DeletePolicy"
    /\ last.err = "ErrPolicyInUse"
    /\ last.policy \in DOMAIN policies
    /\ \E kid \in Referencing(last.policy) : keys[kid].State = StateSuspended

\* C6: DeletePolicy(P) succeeds as soon as every key referencing P is in a
\* terminal state (revoked or expired), and P is then no longer stored.
DeletePolicySucceedsOnceKeysTerminal ==
    [][\A pid \in DOMAIN policies :
          (/\ Called("DeletePolicy")
           /\ last'.policy = pid
           /\ \A kid \in Referencing(pid) : Terminal(keys[kid].State)) =>
              /\ last'.err = "nil"
              /\ pid \notin DOMAIN policies']_vars

\* ValidateKey gets as far as the expiry check for kid: the step validates
\* kid's raw key and kid's stored state passes the state check.
ReachesExpiryCheck(kid) == ValidatedWithRawOf(kid) /\ StatePasses(keys[kid].State)

\* The call failed with KeyExpired and the key is stored as expired.
ExpiredBy(kid) ==
    /\ last'.err = "ErrKeyExpired"
    /\ keys'[kid].State = StateExpired

JustDid(op, kid) == last.op = op /\ last.err = "nil" /\ last.key = kid

\* After SuspendKey, ValidateKey with the key's raw key fails with
\* KeyInactive; a successful ReactivateKey stores state active.
SuspendedUntilReactivated ==
    /\ \A kid \in DOMAIN keys :
          (JustDid("SuspendKey", kid) /\ ValidatedWithRawOf(kid)) =>
              last'.err = "ErrKeyInactive"
    /\ (Called("ReactivateKey") /\ last'.err = "nil") =>
          keys'[last'.key].State = StateActive

\* C8 as stated: after SuspendKey, ValidateKey with the key's raw key fails
\* with KeyInactive; after a following ReactivateKey the stored state is
\* active and ValidateKey with the same raw key succeeds again and returns
\* the same key id.
SuspendThenReactivate ==
    [][/\ SuspendedUntilReactivated
       /\ \A kid \in DOMAIN keys :
             (JustDid("ReactivateKey", kid) /\ ValidatedWithRawOf(kid)) =>
                 /\ last'.err = "nil"
                 /\ last'.key = kid]_vars

\* C8, amended: as above, except that after the ReactivateKey ValidateKey
\* runs its remaining checks: it fails with KeyExpired when the key's
\* expires_at has passed and with RateLimited when the limiter is consulted
\* and does not admit the call; otherwise it succeeds and returns the same
\* key id.
SuspendThenReactivateThenChecks ==
    [][/\ SuspendedUntilReactivated
       /\ \A kid \in DOMAIN keys :
             (JustDid("ReactivateKey", kid) /\ ValidatedWithRawOf(kid)) =>
                 /\ last'.err \in {"nil", "ErrKeyExpired", "ErrRateLimited"}
                 /\ last'.err = "nil" => last'.key = kid
                 /\ last'.err = "ErrKeyExpired" <=> Expired(keys[kid], now)
                 /\ last'.err = "ErrRateLimited" => LimiterConsulted(keys[kid])]_vars

\* A key that had been validated, then suspended, has just been reactivated
\* and is stored as active.
SuspendThenReactivateWitness ==
    /\ last.op = "ReactivateKey"
    /\ last.err = "nil"
    /\ last.key \in DOMAIN keys
    /\ keys[last.key].State = StateActive
    /\ keys[last.key].LastUsedAt # NoTime

\* C9: ReactivateKey on a key whose state is anything other than suspended
\* fails with InvalidStateTransition, leaves the store unchanged and fires
\* no hook.
ReactivateOnlySuspended ==
    [][\A kid \in DOMAIN keys :
          (/\ Called("ReactivateKey")
           /\ last'.key = kid
           /\ keys[kid].State # StateSuspended) =>
              /\ last'.err = "ErrInvalidStateTransition"
              /\ UNCHANGED storeVars
              /\ last'.hooks = <<>>]_vars

\* ReactivateKey has just been refused on a revoked key, which is still stored
\* as revoked.
ReactivateOnlySuspendedWitness ==
    /\ last.op = "ReactivateKey"
    /\ last.err = "ErrInvalidStateTransition"
    /\ last.key \in DOMAIN keys
    /\ keys[last.key].State = StateRevoked

----------------------------------------------------------------------------
\* Properties of the hook manager

\* The registered plug-ins that implement kind, by position.
Implementers(ps, kind) == {i \in 1..Len(ps) : kind \in ps[i].implements}

\* The implementers with no failing implementer registered before them.
Reached(ps, kind) ==
    {i \in Implementers(ps, kind) :
        \A j \in Implementers(ps, kind) : j < i => ~ps[j].err}

\* C10: each Fire<Kind> calls, in registration order, the handlers of exactly
\* the registered plug-ins that implement the kind and have no failing
\* implementer before them; it returns the error of the first failing handler
\* (nil when none fails) and calls no plug-in registered after that one.
FireStopsAtFirstError ==
    dispatch.kind # "none" =>
        LET ps == SubSeq(plugins, 1, dispatch.registered)
            called == dispatch.called
            reached == Reached(ps, dispatch.kind)
        IN  /\ {called[n] : n \in DOMAIN called} = reached
            /\ \A m, n \in DOMAIN called : m < n => called[m] < called[n]
            /\ IF \E i \in reached : ps[i].err
               THEN /\ dispatch.err \in reached
                    /\ ps[dispatch.err].err
                    /\ called[Len(called)] = dispatch.err
               ELSE dispatch.err = 0

\* A Fire<Kind> skipped a plug-in that does not implement the kind, called
\* one that does, stopped at the error of the next and left a later
\* implementer uncalled.
FireStopsAtFirstErrorWitness ==
    /\ Len(plugins) = 3
    /\ dispatch.registered = 3
    /\ dispatch.kind = "KeyRevoked"
    /\ dispatch.kind \notin plugins[1].implements
    /\ dispatch.called = <<2>>
    /\ dispatch.err = 2
    /\ dispatch.kind \in plugins[3].implements

----------------------------------------------------------------------------
\* Properties of the engine's use of hooks

\* Some handler the step called returned an error.
HandlerFailed == \E i \in DOMAIN last'.hooks : last'.hooks[i].err # 0

\* C11: hook errors are swallowed by the engine: no engine operation (Stop
\* included) returns the error of a handler it called, and CreateKey stores
\* and returns its key even when a KeyCreated handler fails.
HookErrorsSwallowed ==
    [][HandlerFailed =>
          /\ last'.err # "hook error"
          /\ Called("CreateKey") =>
                /\ last'.err = "nil"
                /\ last'.key \in DOMAIN keys'
                /\ last'.raw # NoRaw]_vars

----------------------------------------------------------------------------
\* Properties of rotation

\* The rotation records of key kid.
RecordsOf(R, kid) == {rid \in DOMAIN R : R[rid].KeyID = kid}

\* C12: each successful RotateKey adds exactly one rotation record, for the
\* rotated key, whose new_key_hash is the key's stored key_hash after the call
\* and whose old_key_hash is the key's hash before it; the records already
\* there stay, and no other operation adds or removes a record, so n
\* successful rotations of a key leave n records for it.
OneRecordPerRotation ==
    [][IF Called("RotateKey") /\ last'.err = "nil"
       THEN \E rid \in DOMAIN rotations' :
               /\ rid \notin DOMAIN rotations
               /\ DOMAIN rotations' = DOMAIN rotations \cup {rid}
               /\ \A other \in DOMAIN rotations : rotations'[other] = rotations[other]
               /\ rotations'[rid].KeyID = last'.key
               /\ rotations'[rid].NewKeyHash = keys'[last'.key].KeyHash
               /\ rotations'[rid].OldKeyHash = keys[last'.key].KeyHash
               /\ Cardinality(RecordsOf(rotations', last'.key))
                     = Cardinality(RecordsOf(rotations, last'.key)) + 1
       ELSE UNCHANGED rotations]_vars

\* A key has been rotated twice and has two rotation records, the second
\* starting from the hash the first ended with.
OneRecordPerRotationWitness ==
    /\ last.op = "RotateKey"
    /\ last.err = "nil"
    /\ Cardinality(RecordsOf(rotations, last.key)) = 2
    /\ \E a, b \in RecordsOf(rotations, last.key) :
          /\ rotations[a].NewKeyHash = rotations[b].OldKeyHash
          /\ rotations[b].NewKeyHash = keys[last.key].KeyHash

\* The RotateKey calls that found key kid stored and have returned.
Returned(kid) ==
    {c \in Callers : /\ calls[c].pc = "returned"
                     /\ calls[c].key = kid
                     /\ calls[c].err # "get key: not found"}

\* At least two RotateKey calls on kid have returned and none is under way.
RotationsSettled(kid) ==
    /\ Cardinality(Returned(kid)) >= 2
    /\ \A c \in RotationsInFlight : calls[c].key # kid

\* The returned call whose key update was committed last.
LastCommitted(kid) ==
    CHOOSE w \in Returned(kid) : \A c \in Returned(kid) : calls[c].commit <= calls[w].commit

ScopesNamed(S, tenant, name) == {sc \in S : sc.TenantID = tenant /\ sc.Name = name}

\* C14: CreateKey given a scope name that is not among the tenant's scopes
\* fails with an error, and the key row it stored before attaching the scopes
\* stays stored.
CreateKeyMissingScopeFails ==
    [][\A name \in last'.names :
          (Called("CreateKey") /\ ids'.key = ids.key + 1
              /\ ScopesNamed(scopes, keys'[ids'.key].TenantID, name) = {}) =>
             /\ last'.err # "nil"
             /\ ids'.key \in DOMAIN keys']_vars

\* C15: scope names are resolved within the key's tenant: AssignScopes given,
\* for a stored key, a name that only another tenant has a scope for fails with
\* scope-not-found, and no scope that a successful ValidateKey returns for a
\* key belongs to a tenant other than the key's.
ScopesResolvedInKeyTenant ==
    [][/\ (Called("AssignScopes") /\ last'.key \in DOMAIN keys) =>
             \A name \in last'.names :
                (/\ ScopesNamed(scopes, keys[last'.key].TenantID, name) = {}
                 /\ \E sc \in scopes : sc.Name = name)
                    => last'.err = "scope: not found"
       /\ (Called("ValidateKey") /\ last'.err = "nil") =>
             \A sc \in last'.scopes : sc.TenantID = keys[last'.key].TenantID]_vars

\* The scope names the junction holds for key kid.
Assigned(KS, kid) == IF kid \in DOMAIN KS THEN KS[kid] ELSE {}

\* C16: a successful ValidateKey returns as scopes exactly the names assigned
\* to the key at that moment (given at CreateKey or by AssignScopes and not
\* since removed by RemoveScopes), each name once, and none when none are
\* assigned.
ValidateReturnsAssignedScopes ==
    [][(Called("ValidateKey") /\ last'.err = "nil") =>
          /\ {sc.Name : sc \in last'.scopes} = Assigned(keyScopes, last'.key)
          /\ \A a, b \in last'.scopes : a.Name = b.Name => a = b]_vars

\* C17: scope assignment is an idempotent set update.  AssignScopes succeeds
\* and applying the same assignment once more, to the junction it leaves,
\* gives that same junction; a repeated call changes nothing.  RemoveScopes of
\* names none of which is assigned to the key succeeds and leaves the whole
\* junction, the other keys' assignments included, as it was.
ScopeAssignmentIdempotent ==
    [][/\ Called("AssignScopes") =>
             /\ last'.err = "nil"
             /\ AssignToKey(keyScopes', last'.key, last'.names) = keyScopes'
             /\ (last.op = "AssignScopes" /\ last.key = last'.key
                    /\ last.names = last'.names) => keyScopes' = keyScopes
       /\ (Called("RemoveScopes")
              /\ last'.names \cap Assigned(keyScopes, last'.key) = {}) =>
             /\ last'.err = "nil"
             /\ keyScopes' = keyScopes]_vars

\* RemoveScopes has returned for a key that keeps another name, while another
\* key has names assigned too.
ScopeAssignmentIdempotentWitness ==
    /\ last.op = "RemoveScopes"
    /\ last.err = "nil"
    /\ last.names = {"write"}
    /\ Assigned(keyScopes, last.key) = {"read"}
    /\ \E other \in DOMAIN keyScopes : other # last.key /\ keyScopes[other] = {"read", "write"}

\* The key material the stores hold: the hash and hint of every key row, the
\* hashes the key index is filed under, and both hashes of every rotation
\* record.  (The junction holds key ids and scope names; the engine writes no
\* usage record of its own.)
StoredKeyMaterial ==
    {keys[kid].KeyHash : kid \in DOMAIN keys}
       \cup {keys[kid].Hint : kid \in DOMAIN keys}
       \cup DOMAIN hashIndex
       \cup {rotations[rid].OldKeyHash : rid \in DOMAIN rotations}
       \cup {rotations[rid].NewKeyHash : rid \in DOMAIN rotations}

HintMatchesCurrentHash ==
    \A kid \in DOMAIN keys :
        /\ \E rawKey \in issued : Hash(rawKey) = keys[kid].KeyHash
        /\ \A rawKey \in RawKeys :
              Hash(rawKey) = keys[kid].KeyHash => keys[kid].Hint = Hint(rawKey)

\* Two rotations that both read the key before either wrote it have both
\* returned, and the hints of their two raw keys differ.
HintMatchesCurrentHashWitness ==
    \E kid \in DOMAIN keys :
        \E a, b \in Returned(kid) :
            /\ calls[a].oldHash = calls[b].oldHash
            /\ calls[a].commit < calls[b].commit
            /\ Hint(calls[a].raw) # Hint(calls[b].raw)
            /\ keys[kid].KeyHash = Hash(calls[b].raw)

\* C20: a successful CreateKey with a policy whose max_key_lifetime is
\* positive and no expires_at from the caller stores expires_at = creation
\* time + max_key_lifetime; with an expires_at from the caller, a policy whose
\* max_key_lifetime is 0, or no policy, it stores expires_at exactly as
\* supplied (unset when none was).
CreateKeyExpiryFromPolicy ==
    [][(Called("CreateKey") /\ last'.err = "nil") =>
          \A ct \in CtxTenants, it \in InputTenants, expiresAt \in ExpiryInputs :
             CreateKey(last'.raw, ct, it, last'.policy, expiresAt, last'.names) =>
                LET pid == last'.policy
                    lifetime == IF pid = NoPolicy THEN 0 ELSE policies[pid].MaxKeyLifetime
                IN  /\ (lifetime > 0 /\ expiresAt = NoTime) =>
                          keys'[last'.key].ExpiresAt = now + lifetime
                    /\ (lifetime = 0 \/ expiresAt # NoTime) =>
                          keys'[last'.key].ExpiresAt = expiresAt]_vars

\* A key has just been created under a policy with a lifetime, and its
\* expiry, creation time + lifetime, is one no caller supplies.
CreateKeyExpiryFromPolicyWitness ==
    /\ last.op = "CreateKey"
    /\ last.err = "nil"
    /\ last.policy # NoPolicy
    /\ policies[last.policy].MaxKeyLifetime > 0
    /\ keys[last.key].ExpiresAt = now + policies[last.policy].MaxKeyLifetime
    /\ keys[last.key].ExpiresAt \notin ExpiryInputs

\* C21: CreateKey stamps the key with the tenant carried on the context; the
\* TenantID of the input is stored only when the context carries none, and
\* with neither the stored tenant_id is empty.
CreateKeyTenantFromContext ==
    [][(Called("CreateKey") /\ last'.err = "nil") =>
          \A ct \in TenantsOnContext, it \in TenantInputs :
             CreateKey(last'.raw, ct, it, last'.policy, NoTime, last'.names) =>
                /\ ct # "" => keys'[last'.key].TenantID = ct
                /\ ct = "" => keys'[last'.key].TenantID = it
                /\ (ct = "" /\ it = "") => keys'[last'.key].TenantID = ""]_vars

\* With no tenant on the context, one key has been created with the input's
\* tenant and one with no tenant at all.
CreateKeyTenantFromContextWitness ==
    /\ last.op = "CreateKey"
    /\ last.err = "nil"
    /\ \E a, b \in DOMAIN keys : keys[a].TenantID = "t2" /\ keys[b].TenantID = ""

\* The result of a ValidateKey call that found no key for rawKey.
InvalidKeyResult(rawKey) ==
    Asked(Result("ValidateKey", NoKey, NoPolicy, rawKey, NoRaw, "ErrInvalidKey",
                 <<Hook("KeyValidationFailed", NoKey)>>, {}), 0)

\* C22: whenever the by-hash lookup fails, the key not being there or the store
\* failing, ValidateKey returns exactly InvalidKey, fires KeyValidationFailed
\* and nothing else, and writes nothing to the store; the result of a call
\* whose lookup hit a store failure is the result of a call for a key that is
\* not there.
ValidateKeyLookupFailureIsInvalidKey ==
    [][\A rawKey \in RawKeys :
          /\ (Called("ValidateKey") /\ last'.raw = rawKey
                 /\ GetByHash(keys, hashIndex, Hash(rawKey)) = NoKey) =>
                /\ last' = InvalidKeyResult(rawKey)
                /\ UNCHANGED <<storeVars, pendingLastUsed>>
          /\ ValidateKeyWith(rawKey, TRUE, FALSE, TRUE) =>
                /\ last' = InvalidKeyResult(rawKey)
                /\ UNCHANGED <<storeVars, pendingLastUsed>>]_vars

\* ValidateKey has returned InvalidKey for the raw key of a stored, active
\* key: its lookup failed in the store.
ValidateKeyLookupFailureIsInvalidKeyWitness ==
    /\ last.op = "ValidateKey"
    /\ last.err = "ErrInvalidKey"
    /\ \E kid \in DOMAIN keys :
          /\ GetByHash(keys, hashIndex, Hash(last.raw)) = kid
          /\ keys[kid].State = StateActive

RevokeFromAnyLiveState ==
    [][\A kid \in DOMAIN keys, reason \in StateRevokeReasons :
          (/\ keys[kid].State \in {StateActive, StateSuspended, StateRotated}
           /\ RevokeKey(kid, reason)) =>
             /\ last'.err = "nil"
             /\ keys'[kid].State = StateRevoked
             /\ keys'[kid].RevokedAt = now
             /\ Len(last'.hooks) = 1
             /\ last'.hooks[1].kind = "KeyRevoked"
             /\ last'.hooks[1].subject = kid
             /\ last'.hooks[1].reason = reason]_vars

\* RevokeKey has just revoked one key, with the second of the reasons, while
\* the other key is stored as rotated.
RevokeFromAnyLiveStateWitness ==
    /\ last.op = "RevokeKey"
    /\ last.err = "nil"
    /\ last.hooks[1].reason = "retired"
    /\ keys[last.key].State = StateRevoked
    /\ keys[last.key].RevokedAt = now
    /\ \E other \in DOMAIN keys : keys[other].State = StateRotated

\* The keys that are active with an expiry before t.
ActiveExpiredBefore(t) ==
    {kid \in DOMAIN keys :
        keys[kid].State = StateActive /\ keys[kid].ExpiresAt # NoTime /\ keys[kid].ExpiresAt < t}

\* The keys that are active with an expiry at or before t.
ActiveExpiredBy(t) ==
    {kid \in DOMAIN keys :
        keys[kid].State = StateActive /\ keys[kid].ExpiresAt # NoTime /\ keys[kid].ExpiresAt <= t}

\* The keys the hooks of the step's result were fired for.
HookSubjects == {last'.hooks[i].subject : i \in DOMAIN last'.hooks}

\* What a CleanupExpiredKeys step does with the keys in `due`: it returns
\* success; it fires KeyExpired once for each due key whose state update did
\* not fail and for no other key; those keys become expired and every other
\* key stays as it was.
SweepExpires(due) ==
    Called("CleanupExpiredKeys") =>
       /\ last'.err = "nil"
       /\ \A order \in Orderings(ListExpired(keys, now)),
             failing \in SUBSET ListExpired(keys, now) :
             CleanupExpiredKeysWith(order, failing) => HookSubjects = due \ failing
       /\ Len(last'.hooks) = Cardinality(HookSubjects)
       /\ \A i \in DOMAIN last'.hooks : last'.hooks[i].kind = "KeyExpired"
       /\ \A kid \in HookSubjects : keys'[kid].State = StateExpired
       /\ \A kid \in DOMAIN keys \ HookSubjects : keys'[kid] = keys[kid]
       /\ DOMAIN keys' = DOMAIN keys

\* A run that finds nothing due changes no key and fires no hook, and a run
\* in which no state update fails leaves nothing due.
SweepIdempotent(due) ==
    Called("CleanupExpiredKeys") =>
       /\ due = {} => (keys' = keys /\ last'.hooks = <<>>)
       /\ (\E order \in Orderings(ListExpired(keys, now)) : CleanupExpiredKeysWith(order, {}))
             => \A kid \in due : keys'[kid].State # StateActive

GraceSweepRevokesRotatedOnly ==
    [][Called("CleanupGraceExpired") =>
          /\ \A rid \in DOMAIN rotations :
                (/\ rotations[rid].GraceEnds < now
                 /\ rotations[rid].KeyID \in DOMAIN keys
                 /\ keys[rotations[rid].KeyID].State = StateRotated)
                   => keys'[rotations[rid].KeyID].State = StateRevoked
          /\ \A kid \in DOMAIN keys :
                keys[kid].State # StateRotated => keys'[kid] = keys[kid]
          /\ \A kid \in DOMAIN keys :
                keys'[kid] # keys[kid] =>
                   \E rid \in RecordsOf(rotations, kid) : rotations[rid].GraceEnds < now']_vars

\* C27: over any ValidateKey calls on a key whose expiry has passed, one after
\* another or overlapping, KeyExpired is fired once in total: a call that fires
\* it for a key is the one that takes the key to expired, so that it finds the
\* key not yet expired in the store; every other call fires no KeyExpired.
FiresKeyExpired(kid) ==
    /\ Called("ValidateKey")
    /\ \E i \in DOMAIN last'.hooks :
          last'.hooks[i].kind = "KeyExpired" /\ last'.hooks[i].subject = kid

KeyExpiredFiredOnce ==
    [][\A kid \in DOMAIN keys :
          FiresKeyExpired(kid) =>
             /\ keys[kid].State # StateExpired
             /\ keys'[kid].State = StateExpired]_vars

\* C28: when keyStore.Create fails in CreateKey, the call fires
\* KeyCreateFailed and no other hook (no KeyCreated), returns the store's
\* error wrapped as "store key: ...", returns no key and no raw key, and
\* leaves the keys, the hash index and the scope assignments as they were.
CreateKeyPersistFailure ==
    [][Called("CreateKey") =>
          \A rawKey \in RawKeys, ct \in CtxTenants, names \in SUBSET ScopeNames :
             CreateKeyWith(rawKey, ct, "", NoPolicy, NoTime, names, TRUE) =>
                /\ last'.err = "store key: store error"
                /\ Len(last'.hooks) = 1
                /\ last'.hooks[1].kind = "KeyCreateFailed"
                /\ last'.raw = NoRaw
                /\ last'.key = NoKey
                /\ keys' = keys
                /\ hashIndex' = hashIndex
                /\ keyScopes' = keyScopes
                /\ rawOf' = rawOf]_vars

\* The last CreateKey failed at the store, next to a key an earlier CreateKey
\* stored, and no key has scopes assigned.
CreateKeyPersistFailureWitness ==
    /\ last.op = "CreateKey"
    /\ last.err = "store key: store error"
    /\ keys # <<>>
    /\ \A kid \in DOMAIN keys : kid \notin DOMAIN keyScopes \/ keyScopes[kid] = {}

IDRoundTrip ==
    last.op = "id.Parse" =>
       IF last.expected = last.of.prefix
       THEN last.err = "nil" /\ last.id = last.of
       ELSE last.err # "nil"

\* ParseKeyID has just refused the string of a policy id.
IDRoundTripWitness ==
    /\ last.op = "id.Parse"
    /\ last.expected = PrefixKey
    /\ last.of.prefix = PrefixPolicy
    /\ last.err # "nil"

\* C31: a RevokeKey that has returned success is not undone by a RotateKey
\* that read the key before it: from then on the key's stored state stays
\* revoked, whatever the rotation writes afterwards, and no ValidateKey
\* succeeds on the key, the raw key that rotation returns included.
RevokeSurvivesRotation ==
    [][\A kid \in DOMAIN keys :
          keys[kid].State = StateRevoked =>
             /\ keys'[kid].State = StateRevoked
             /\ ~(Called("ValidateKey") /\ last'.err = "nil" /\ last'.key = kid)]_vars

\* C32: ReactivateKey moves a key from suspended to active only: the step in
\* which a ReactivateKey call writes the state finds the key suspended in the
\* store, or leaves its state as it is.
ReactivateOnlyFromSuspended ==
    [][Called("ReactivateKey") =>
          \A kid \in DOMAIN keys :
             keys'[kid].State # keys[kid].State =>
                keys[kid].State = StateSuspended /\ keys'[kid].State = StateActive]_vars

\* C33: in every reachable state the policy_id of each key in a non-terminal
\* state names a policy that is stored, also when CreateKey and DeletePolicy
\* run step by step and interleave.
LiveKeyPolicyStored ==
    \A kid \in DOMAIN keys :
        (~Terminal(keys[kid].State) /\ keys[kid].PolicyID # NoPolicy)
           => keys[kid].PolicyID \in DOMAIN policies

\* C34: a RotateKey that returns an error (the key load, the generator, the
\* key update or the write of the rotation record failed) leaves every key's
\* stored key_hash and hint and the hash index as they were and adds no
\* rotation record, so that the raw key issued before still validates.
FailedRotateChangesNothing ==
    [][(Called("RotateKey") /\ last'.err # "nil") =>
          /\ \A kid \in DOMAIN keys :
                /\ keys'[kid].KeyHash = keys[kid].KeyHash
                /\ keys'[kid].Hint = keys[kid].Hint
          /\ hashIndex' = hashIndex
          /\ rotations' = rotations]_vars

\* The grace window of key kid is over: LatestForKey returns a record, and
\* whichever it returns has its grace_ends before now.
GraceEnded(kid) ==
    /\ LatestForKey(rotations, kid) # {}
    /\ \A rid \in LatestForKey(rotations, kid) : now > rotations[rid].GraceEnds

\* The call asked the limiter nothing and fired no KeyRateLimited.
LimiterLeftAlone ==
    /\ last'.limiter = 0
    /\ last'.err # "ErrRateLimited"
    /\ \A i \in DOMAIN last'.hooks : last'.hooks[i].kind # "KeyRateLimited"

\* C35: one ValidateKey call checks state, then expiry, then grace, then the
\* rate limit.  A key that fails the state check gets KeyInactive; one that
\* passes it and has expired gets KeyExpired; a key stored as rotated that has
\* not expired and whose latest rotation record's grace_ends has passed gets
\* KeyRevoked and is stored as revoked, and a rotated key past its grace never
\* gets KeyInactive.  A call rejected by any of these checks asks the limiter
\* nothing and fires no KeyRateLimited, and no call asks the limiter twice.
ValidateChecksInOrder ==
    [][Called("ValidateKey") =>
          LET kid == GetByHash(keys, hashIndex, Hash(last'.raw))
          IN  /\ last'.limiter \in {0, 1}
              /\ last'.err \in {"ErrInvalidKey", "ErrKeyInactive", "ErrKeyExpired",
                                "ErrKeyRevoked"} => LimiterLeftAlone
              /\ kid # NoKey =>
                    /\ ~StatePasses(keys[kid].State) => last'.err = "ErrKeyInactive"
                    /\ (StatePasses(keys[kid].State) /\ Expired(keys[kid], now)) =>
                          last'.err = "ErrKeyExpired"
                    /\ (keys[kid].State = StateRotated /\ GraceEnded(kid)) =>
                          /\ last'.err # "ErrKeyInactive"
                          /\ LimiterLeftAlone
                          /\ ~Expired(keys[kid], now) =>
                                /\ last'.err = "ErrKeyRevoked"
                                /\ keys'[kid].State = StateRevoked]_vars

\* A rotated key with a rate-limited policy has just been refused with
\* KeyRevoked after its grace window, without a call of the limiter.
ValidateChecksInOrderWitness ==
    /\ last.op = "ValidateKey"
    /\ last.err = "ErrKeyRevoked"
    /\ last.limiter = 0
    /\ ratelimiter
    /\ \E kid \in DOMAIN keys :
          /\ GetByHash(keys, hashIndex, Hash(last.raw)) = kid
          /\ keys[kid].State = StateRevoked
          /\ keys[kid].PolicyID \in DOMAIN policies
          /\ policies[keys[kid].PolicyID].RateLimit > 0

LifetimeIsCeiling ==
    [][(/\ Called("CreateKey")
        /\ last'.err = "nil"
        /\ last'.policy # NoPolicy
        /\ policies[last'.policy].MaxKeyLifetime > 0) =>
          /\ keys'[last'.key].ExpiresAt # NoTime
          /\ keys'[last'.key].ExpiresAt <= now + policies[last'.policy].MaxKeyLifetime]_vars

\* C38: a key's stored last_used_at never moves backwards and never returns
\* to unset, whatever RevokeKey or RotateKey call overlaps the background
\* update that writes it.
LastUsedNeverGoesBack ==
    [][\A kid \in DOMAIN keys :
          keys[kid].LastUsedAt # NoTime =>
             /\ kid \in DOMAIN keys'
             /\ keys'[kid].LastUsedAt # NoTime
             /\ keys'[kid].LastUsedAt >= keys[kid].LastUsedAt]_vars

\* C39: after any Create, Update, Delete and DeleteByTenant calls the hash
\* index agrees with the key table: GetByHash(h) returns a key exactly when a
\* stored key has key_hash h, and the key it returns has that hash.
HashIndexAgreesWithKeys ==
    \A rawKey \in RawKeys :
        LET h == Hash(rawKey)
            kid == GetByHash(keys, hashIndex, h)
        IN  /\ kid # NoKey <=> \E other \in DOMAIN keys : keys[other].KeyHash = h
            /\ kid # NoKey => keys[kid].KeyHash = h

============================================================================
